---------------------------- MODULE Spec2Model ----------------------------
(***************************************************************************)
(* A model of the adaptive mutation pipeline of WebDevPlayground:          *)
(*   - the regex based HTML merge utility (server/utils/mergeHTML.js),     *)
(*   - the context resolver (contextService, in intentService.js),         *)
(*   - the orchestrator processAdaptiveRequest with its LLM calls and the  *)
(*     /api/adaptive-chat handler that stores the result.                  *)
(*                                                                         *)
(* Text is modelled at the granularity the regular expressions of the code *)
(* work at: an HTML document is a sequence of tokens (open tag with its    *)
(* tag name, id and classes; close tag; self-closed tag; text run).  A     *)
(* character index of the code is a token index here (1-based).  What the  *)
(* regular expressions decide by characters inside a name (a tag name that *)
(* is a prefix of another, a class name that occurs as a word inside a     *)
(* hyphenated class name) is given by the tables StartsWith and WordIn.    *)
(***************************************************************************)
EXTENDS Integers, Sequences, FiniteSets, TLC

VARIABLES
    \* ---- the server (index.js): conversationStates and conversations maps,
    \* the request being served and the response sent for the last one
    conversationStates, conversations, req, currentCode, response, served,
    \* ---- processAdaptiveRequest: where it stands and its locals
    pc, mutKind, intent, context, mutationResult, validation, retry, totalUsage,
    pipelineSteps, result,
    \* ---- the calls issued to the model for the request, with their outcome,
    \* the last reply received, the strategy the classifier returned and the
    \* strategies the mutations were dispatched with
    llmCalls, reply, classified, dispatched,
    \* ---- the tokens the model reported for the calls of the request that
    \* returned a response
    issuedUsage,
    \* ---- merge harness (mergeHTMLFragment applied to chosen inputs)
    mPc, mD, mF, mS, mMode, mR1, mR2,
    \* ---- resolver harness (resolveContext applied to chosen inputs)
    rPc, rIntent, rCode, rOut,
    \* ---- CSS merge harness (mergeCSSFragment applied to chosen inputs)
    cPc, cFull, cFrag, cOut,
    \* ---- classifier harness (parseIntent applied to chosen inputs)
    kPc, kMessage, kImage, kReply, kIntent,
    \* ---- function harness (the response parsers, validateMutation and
    \* checkHTMLSyntax applied to chosen inputs)
    fPc, fIn, fOut,
    \* ---- the adaptive-chat handler with several requests in flight: the
    \* objects holding documents, the object conversationStates refers to for
    \* each conversation id, the requests awaiting the pipeline, and the number
    \* of requests that arrived
    heap, stateOf, inFlight, arrivals

mergeVars == <<mPc, mD, mF, mS, mMode, mR1, mR2>>

resolveVars == <<rPc, rIntent, rCode, rOut>>

cssVars == <<cPc, cFull, cFrag, cOut>>

classifyVars == <<kPc, kMessage, kImage, kReply, kIntent>>

funVars == <<fPc, fIn, fOut>>

handlerVars == <<heap, stateOf, inFlight, arrivals>>

serverVars == <<conversationStates, conversations, req, currentCode, response, served>>

pipelineVars ==
    <<pc, mutKind, intent, context, mutationResult, validation, retry, totalUsage,
      pipelineSteps, result, llmCalls, reply, classified, dispatched, issuedUsage>>

vars ==
    <<conversationStates, conversations, req, currentCode, response, served,
      pc, mutKind, intent, context, mutationResult, validation, retry, totalUsage,
      pipelineSteps, result, llmCalls, reply, classified, dispatched, issuedUsage,
      mPc, mD, mF, mS, mMode, mR1, mR2, rPc, rIntent, rCode, rOut,
      cPc, cFull, cFrag, cOut, kPc, kMessage, kImage, kReply, kIntent, fPc, fIn, fOut,
      heap, stateOf, inFlight, arrivals>>

-----------------------------------------------------------------------------
(* Bounds of the model *)

MaxDocLen == 4

MaxFragLen == MaxDocLen - 2

-----------------------------------------------------------------------------
(* Text: names, tokens, selectors *)

\* "t starts with p", for the tag names the model uses.
\* new RegExp(`<(${selector})[^>]*>`) matches <divx> for the selector div.
StartsWith(t, p) ==
    \/ t = p
    \/ <<p, t>> \in {<<"div", "divx">>, <<"p", "pre">>, <<"h", "header">>}

\* "n occurs in the class name c between word boundaries" (the \b...\b of the
\* class patterns): hero occurs as a word in hero-section.
WordIn(n, c) ==
    \/ n = c
    \/ <<n, c>> \in {<<"hero", "hero-section">>, <<"section", "hero-section">>,
                     <<"card", "card-container">>, <<"container", "card-container">>}

\* Number of characters of a tag name (only its relation to 4 matters, see wrap).
TagLen(t) ==
    CASE t = "div" -> 3
      [] t = "p" -> 1
      [] t = "divx" -> 4
      [] t = "body" -> 4
      [] t = "main" -> 4
      [] t = "section" -> 7
      [] t = "header" -> 6
      [] OTHER -> 4

Open(tag, id, cls) == [k |-> "open", tag |-> tag, id |-> id, cls |-> cls, txt |-> ""]
SelfClosed(tag, id, cls) == [k |-> "selfclose", tag |-> tag, id |-> id, cls |-> cls, txt |-> ""]
Close(tag) == [k |-> "close", tag |-> tag, id |-> "", cls |-> <<>>, txt |-> ""]
Text(s) == [k |-> "text", tag |-> "", id |-> "", cls |-> <<>>, txt |-> s]
NL == Text("\n")

IsOpening(tok) == tok.k \in {"open", "selfclose"}

HasClassWord(tok, n) == \E i \in 1..Len(tok.cls) : WordIn(n, tok.cls[i])

Sel(kind, tag, name) == [kind |-> kind, tag |-> tag, name |-> name]
IdSel(n) == Sel("id", "", n)
ClassSel(n) == Sel("class", "", n)
TagSel(t) == Sel("tag", t, "")
TagClassSel(t, n) == Sel("tagclass", t, n)
OtherSel(n) == Sel("other", "", n)
NoSel == Sel("none", "", "")

SeqsUpTo(S, n) == UNION {[1..k -> S] : k \in 0..n}

Min(S) == CHOOSE x \in S : \A y \in S : x <= y

-----------------------------------------------------------------------------
(* server/utils/mergeHTML.js *)

\* buildSelectorPattern: the predicate on tokens its tagRegex decides, and the
\* tagName it hands to the caller ("" models null).
\* A result with ok = FALSE models `return null`.
buildSelectorPattern(selector) ==
    CASE selector.kind = "id" ->
            [ok |-> TRUE, tagName |-> "", kind |-> "id", tag |-> "", name |-> selector.name]
      [] selector.kind = "class" ->
            [ok |-> TRUE, tagName |-> "", kind |-> "class", tag |-> "", name |-> selector.name]
      [] selector.kind = "tag" ->
            [ok |-> TRUE, tagName |-> selector.tag, kind |-> "tag", tag |-> selector.tag, name |-> ""]
      [] selector.kind = "tagclass" ->
            [ok |-> TRUE, tagName |-> selector.tag, kind |-> "tagclass", tag |-> selector.tag,
             name |-> selector.name]
      [] OTHER ->
            [ok |-> FALSE, tagName |-> "", kind |-> "none", tag |-> "", name |-> ""]

\* tagRegex matches the token (an opening tag; the patterns start with "<(\w+)").
TagRegexMatches(pat, tok) ==
    /\ IsOpening(tok)
    /\ CASE pat.kind = "id" -> tok.id = pat.name
         [] pat.kind = "class" -> HasClassWord(tok, pat.name)
         [] pat.kind = "tag" -> StartsWith(tok.tag, pat.tag)
         [] pat.kind = "tagclass" -> StartsWith(tok.tag, pat.tag) /\ HasClassWord(tok, pat.name)
         [] OTHER -> FALSE

\* tagRegex.exec(fullHTML): index of the first match, 0 when there is none.
TagRegexExec(pat, html) ==
    LET hits == {i \in 1..Len(html) : TagRegexMatches(pat, html[i])}
    IN IF hits = {} THEN 0 ELSE Min(hits)

\* openPattern  <tagName[\s>/]  and closePattern  </tagName>  of findClosingTag.
OpenPatternMatches(tok, tagName) == IsOpening(tok) /\ tok.tag = tagName
ClosePatternMatches(tok, tagName) == tok.k = "close" /\ tok.tag = tagName

\* The loop over the sorted positions: depth++ on an open, depth-- on a close,
\* return the close that brings depth to 0; -1 when none does.
RECURSIVE ScanPositions(_, _, _, _)
ScanPositions(html, tagName, i, depth) ==
    IF i > Len(html) THEN -1
    ELSE IF OpenPatternMatches(html[i], tagName)
         THEN ScanPositions(html, tagName, i + 1, depth + 1)
    ELSE IF ClosePatternMatches(html[i], tagName)
         THEN IF depth - 1 = 0 THEN i
              ELSE ScanPositions(html, tagName, i + 1, depth - 1)
    ELSE ScanPositions(html, tagName, i + 1, depth)

\* Mutant of findClosingTag: not nesting-aware, the first close tag of the name.
findClosingTag_FirstClose(html, tagName, startIndex) ==
    LET name == IF tagName = "" THEN html[startIndex].tag ELSE tagName
        hits == {i \in startIndex..Len(html) : ClosePatternMatches(html[i], name)}
    IN IF hits = {} THEN -1 ELSE Min(hits)

\* findClosingTag(html, tagName, startIndex); tagName "" is null: the name is
\* then read from the opening tag at startIndex.
findClosingTag(html, tagName, startIndex) ==
    LET name == IF tagName = "" THEN html[startIndex].tag ELSE tagName
    IN ScanPositions(html, name, startIndex, 0)

\* `</${tagName}>`.length against the length of the close tag found, in wrap
\* mode: with tagName null the template is "</null>", 7 characters.
WrapCutLen(tagName) == IF tagName = "" THEN 7 ELSE TagLen(tagName) + 3

\* fullHTML.substring(closeTagEnd) when the close tag at index c is cut by
\* cutLen characters: exact when cutLen is the tag's length; a remainder of the
\* close tag stays when it is shorter; the first characters of what follows are
\* lost when it is longer.
AfterWrapCut(html, c, cutLen) ==
    LET closeLen == TagLen(html[c].tag) + 3
        rest == SubSeq(html, c + 1, Len(html))
    IN IF cutLen = closeLen THEN rest
       ELSE IF cutLen < closeLen THEN <<Text("close-tag-remainder")>> \o rest
       ELSE IF rest = <<>> THEN <<>>
       ELSE <<Text("damaged")>> \o Tail(rest)

\* Mutant of mergeHTMLFragment: the fragment goes after the close tag found,
\* outside the element, in every mode.
mergeHTMLFragment_AfterClose(fullHTML, fragmentHTML, selector, mode) ==
    LET pat == buildSelectorPattern(selector)
        match == IF pat.ok THEN TagRegexExec(pat, fullHTML) ELSE 0
        closeTag == IF match = 0 THEN -1 ELSE findClosingTag(fullHTML, pat.tagName, match)
    IN IF closeTag = -1 THEN fullHTML \o <<NL>> \o fragmentHTML
       ELSE SubSeq(fullHTML, 1, closeTag) \o <<NL>> \o fragmentHTML
                \o SubSeq(fullHTML, closeTag + 1, Len(fullHTML))

mergeHTMLFragment(fullHTML, fragmentHTML, selector, mode) ==
    IF fullHTML = <<>> \/ fragmentHTML = <<>> \/ selector.kind = "none"
    THEN (IF fragmentHTML # <<>> THEN fragmentHTML ELSE fullHTML)
    ELSE
    LET pat == buildSelectorPattern(selector) IN
    IF ~pat.ok THEN fragmentHTML
    ELSE
    LET match == TagRegexExec(pat, fullHTML) IN
    IF match = 0 THEN fullHTML \o <<NL>> \o fragmentHTML
    ELSE
    LET closeTag == findClosingTag(fullHTML, pat.tagName, match) IN
    IF closeTag = -1 THEN fullHTML \o <<NL>> \o fragmentHTML
    ELSE
    CASE mode = "replace" ->
            SubSeq(fullHTML, 1, match) \o <<NL>> \o fragmentHTML \o <<NL>>
                \o SubSeq(fullHTML, closeTag, Len(fullHTML))
      [] mode = "append" ->
            SubSeq(fullHTML, 1, closeTag - 1) \o <<NL>> \o fragmentHTML
                \o SubSeq(fullHTML, closeTag, Len(fullHTML))
      [] mode = "wrap" ->
            SubSeq(fullHTML, 1, match - 1) \o fragmentHTML
                \o AfterWrapCut(fullHTML, closeTag, WrapCutLen(pat.tagName))
      [] OTHER -> fullHTML


-----------------------------------------------------------------------------
(* CSS text: a sequence of tokens -- a run of selector text, "{", "}", a run  *)
(* of declarations.  White space is not modelled.                           *)

SelT(s) == [k |-> "sel", txt |-> s]
DeclT(d) == [k |-> "decl", txt |-> d]
LB == [k |-> "lb", txt |-> "{"]
RB == [k |-> "rb", txt |-> "}"]

IsBrace(tok) == tok.k \in {"lb", "rb"}

\* "the selector text hay ends with needle" and what is left in front of it:
\* new RegExp(`${ruleSelector}\s*\{[^}]*\}`) is not anchored at the start of a
\* selector, so .box is found at the end of  .card .box .
CssPrefixBefore(hay, needle) ==
    CASE hay = needle -> ""
      [] <<hay, needle>> = <<".card .box", ".box">> -> ".card "
      [] <<hay, needle>> = <<"div p", "p">> -> "div "
      [] OTHER -> "?"

CssEndsWith(hay, needle) == CssPrefixBefore(hay, needle) # "?"

\* "the selector text hay contains needle" (extractSurroundingCSS).
CssContains(hay, needle) ==
    \/ CssEndsWith(hay, needle)
    \/ <<hay, needle>> \in {<<".card .box", ".card">>, <<".box:hover", ".box">>,
                            <<"span", "p">>, <<"body.dark", "body">>}

\* First brace at or after index i, 0 when there is none.
NextBrace(css, i) ==
    LET hits == {j \in i..Len(css) : IsBrace(css[j])}
    IN IF hits = {} THEN 0 ELSE Min(hits)

\* /([^{}]+?)\s*\{([^{}]*)\}/ matches at index i: a non-empty run without
\* braces, then "{", then a run without braces, then "}".
RuleAt(css, i) ==
    LET j == NextBrace(css, i)
        k == IF j = 0 THEN 0 ELSE NextBrace(css, j + 1)
    IN /\ i <= Len(css) /\ ~IsBrace(css[i])
       /\ j # 0 /\ css[j].k = "lb"
       /\ k # 0 /\ css[k].k = "rb"

RuleEnd(css, i) == NextBrace(css, NextBrace(css, i) + 1)

\* extractCSSRules: the matches of the global pattern, left to right.
RECURSIVE ExtractFrom(_, _)
ExtractFrom(css, pos) ==
    LET hits == {i \in pos..Len(css) : RuleAt(css, i)}
    IN IF hits = {} THEN <<>>
       ELSE LET i == Min(hits)
                j == NextBrace(css, i)
                k == RuleEnd(css, i)
            IN <<[selector |-> SubSeq(css, i, j - 1),
                  body |-> SubSeq(css, j + 1, k - 1),
                  full |-> SubSeq(css, i, k)]>> \o ExtractFrom(css, k + 1)

extractCSSRules(css) == ExtractFrom(css, 1)

\* `${ruleSelector}\s*\{[^}]*\}` matches at index i of css: the selector text
\* ends there, "{" follows, and a "}" comes somewhere after it.
ExistingRuleAt(css, ruleSelector, i) ==
    LET n == Len(ruleSelector) IN
    /\ n >= 1
    /\ i + n <= Len(css)
    /\ css[i].k = ruleSelector[1].k
    /\ CssEndsWith(css[i].txt, ruleSelector[1].txt)
    /\ \A m \in 2..n : css[i + m - 1] = ruleSelector[m]
    /\ css[i + n].k = "lb"
    /\ \E e \in (i + n + 1)..Len(css) : css[e].k = "rb"

ExistingRuleEnd(css, ruleSelector, i) ==
    Min({e \in (i + Len(ruleSelector) + 1)..Len(css) : css[e].k = "rb"})

\* mergedCSS.replace(existingRuleRegex, rule.full): every match, left to right.
RECURSIVE ReplaceRules(_, _, _)
ReplaceRules(css, rule, pos) ==
    LET hits == {i \in pos..Len(css) : ExistingRuleAt(css, rule.selector, i)}
    IN IF hits = {} THEN SubSeq(css, pos, Len(css))
       ELSE LET i == Min(hits)
                e == ExistingRuleEnd(css, rule.selector, i)
                front == CssPrefixBefore(css[i].txt, rule.selector[1].txt)
            IN SubSeq(css, pos, i - 1)
               \o (IF front = "" THEN <<>> ELSE <<[k |-> css[i].k, txt |-> front]>>)
               \o rule.full
               \o ReplaceRules(css, rule, e + 1)

\* new RegExp(ruleSelector + '\\s*\\{').test(fullCSS)
SelectorExists(css, ruleSelector) ==
    \E i \in 1..Len(css) :
        LET n == Len(ruleSelector) IN
        /\ n >= 1 /\ i + n <= Len(css)
        /\ css[i].k = ruleSelector[1].k
        /\ CssEndsWith(css[i].txt, ruleSelector[1].txt)
        /\ \A m \in 2..n : css[i + m - 1] = ruleSelector[m]
        /\ css[i + n].k = "lb"

\* The first loop of mergeCSSFragment over the fragment's rules:
\* <<mergedCSS, hasReplaced>> after the rules n..Len(rules).
RECURSIVE ReplaceLoop(_, _, _, _)
ReplaceLoop(merged, hasReplaced, rules, n) ==
    IF n > Len(rules) THEN <<merged, hasReplaced>>
    ELSE IF \E i \in 1..Len(merged) : ExistingRuleAt(merged, rules[n].selector, i)
         THEN ReplaceLoop(ReplaceRules(merged, rules[n], 1), TRUE, rules, n + 1)
         ELSE ReplaceLoop(merged, hasReplaced, rules, n + 1)

\* The second loop: append the rules whose selector is not in the original.
RECURSIVE AppendLoop(_, _, _, _)
AppendLoop(merged, fullCSS, rules, n) ==
    IF n > Len(rules) THEN merged
    ELSE IF ~SelectorExists(fullCSS, rules[n].selector)
         THEN AppendLoop(merged \o rules[n].full, fullCSS, rules, n + 1)
         ELSE AppendLoop(merged, fullCSS, rules, n + 1)

mergeCSSFragment(fullCSS, fragmentCSS, selector) ==
    IF fullCSS = <<>> /\ fragmentCSS = <<>> THEN <<>>
    ELSE IF fullCSS = <<>> THEN fragmentCSS
    ELSE IF fragmentCSS = <<>> THEN fullCSS
    ELSE
    LET fragmentRules == extractCSSRules(fragmentCSS) IN
    IF fragmentRules = <<>> THEN fullCSS \o fragmentCSS
    ELSE
    LET r == ReplaceLoop(fullCSS, FALSE, fragmentRules, 1) IN
    IF ~r[2] THEN r[1] \o fragmentCSS
    ELSE AppendLoop(r[1], fullCSS, fragmentRules, 1)

-----------------------------------------------------------------------------
(* contextService (server/services/intentService.js, lines 236-603) *)

\* A target hint, by the shape tryDirectSelector tests: "#name" (id), ".name"
\* (class), a bare word (/^[a-z][a-z0-9]*$/i), a hyphenated token, any other
\* phrase, or the empty string.
Hint(kind, name) == [kind |-> kind, name |-> name]

\* "n occurs in the text run txt" (a substring test of tryTextSearch).
SubstringOf(n, txt) ==
    \/ n = txt
    \/ <<n, txt>> \in {<<"hero", "our hero story">>, <<"welcome", "welcome home">>}

\* VISUAL_SYNONYMS: hint word -> ordered candidates.
VISUAL_SYNONYMS(hint) ==
    CASE hint = "box" -> <<TagSel("div"), TagSel("section"), TagSel("article")>>
      [] hint = "container" -> <<TagClassSel("div", "container"), TagSel("main"), ClassSel("wrapper")>>
      [] hint = "wrapper" -> <<TagClassSel("div", "wrapper"), ClassSel("container"), TagSel("main")>>
      [] hint = "theme" -> <<TagSel("body"), OtherSel(":root"), TagSel("html")>>
      [] hint = "page" -> <<TagSel("body"), TagSel("main"), ClassSel("page")>>
      [] hint = "content" -> <<TagSel("main"), ClassSel("content"), TagSel("article")>>
      [] hint = "navbar" -> <<TagSel("nav"), ClassSel("navbar"), ClassSel("nav"), OtherSel("header nav")>>
      [] hint = "menu" -> <<TagSel("nav"), ClassSel("menu"), TagClassSel("ul", "nav")>>
      [] hint = "navigation" -> <<TagSel("nav"), ClassSel("navigation"), TagSel("header")>>
      [] hint = "button" -> <<TagSel("button"), ClassSel("btn"), TagClassSel("a", "btn"),
                              OtherSel("input[type=submit]")>>
      [] hint = "header" -> <<TagSel("header"), TagSel("h1"), ClassSel("header")>>
      [] hint = "title" -> <<TagSel("h1"), TagSel("h2"), ClassSel("title"), ClassSel("heading")>>
      [] hint = "subtitle" -> <<TagSel("h2"), TagSel("h3"), ClassSel("subtitle")>>
      [] hint = "heading" -> <<TagSel("h1"), TagSel("h2"), TagSel("h3")>>
      [] hint = "paragraph" -> <<TagSel("p"), ClassSel("text")>>
      [] hint = "text" -> <<TagSel("p"), TagSel("span"), ClassSel("text")>>
      [] hint = "link" -> <<TagSel("a"), ClassSel("link")>>
      [] hint = "image" -> <<TagSel("img"), TagSel("picture"), ClassSel("image")>>
      [] hint = "card" -> <<ClassSel("card"), TagSel("article"), ClassSel("card-container")>>
      [] hint = "footer" -> <<TagSel("footer"), ClassSel("footer")>>
      [] hint = "hero" -> <<ClassSel("hero"), ClassSel("hero-section"), OtherSel("section:first-of-type")>>
      [] hint = "sidebar" -> <<TagSel("aside"), ClassSel("sidebar"), ClassSel("side-panel")>>
      [] hint = "form" -> <<TagSel("form"), ClassSel("form")>>
      [] hint = "input" -> <<TagSel("input"), TagSel("textarea"), ClassSel("input-field")>>
      [] hint = "modal" -> <<ClassSel("modal"), ClassSel("dialog"), ClassSel("popup")>>
      [] hint = "banner" -> <<ClassSel("banner"), ClassSel("hero"), TagSel("header")>>
      [] hint = "icon" -> <<TagSel("i"), ClassSel("icon"), TagSel("svg")>>
      [] hint = "list" -> <<TagSel("ul"), TagSel("ol"), ClassSel("list")>>
      [] hint = "table" -> <<TagSel("table"), ClassSel("table")>>
      [] OTHER -> <<>>

\* ACTION_DEFAULTS: action -> ordered candidates.
ACTION_DEFAULTS(action) ==
    CASE action \in {"recolor", "change_color"} ->
            <<TagSel("p"), TagSel("h1"), TagSel("h2"), TagSel("h3"), TagSel("span"),
              TagSel("button"), TagSel("a")>>
      [] action = "resize" -> <<TagSel("div"), TagSel("section"), TagSel("img"), ClassSel("container")>>
      [] action = "add_element" -> <<TagSel("main"), TagSel("body"), ClassSel("container")>>
      [] action = "modify_layout" -> <<TagSel("body"), TagSel("main"), ClassSel("container")>>
      [] action = "add_animation" -> <<TagSel("button"), ClassSel("card"), TagSel("a"), TagSel("img")>>
      [] action = "fix_bug" -> <<TagSel("body")>>
      [] OTHER -> <<>>

\* Words a message is made of, and the keyword lists each of them contains
\* (msg.includes(keyword)); a message is the set of its words.
SIMPLE_ACTIONS_in(w) == w \in {"color", "red", "background", "font-size"}
LAYOUT_ACTIONS_in(w) == w \in {"align", "flex", "arrange", "resize", "position"}
COMPLEX_ACTIONS_in(w) == w \in {"build a", "new page", "redesign"}
\* LAYOUT_SENSITIVE_ACTIONS of the resolver: a different list ("arrange" is on
\* LAYOUT_ACTIONS only, "center" and "move" on this one only).
LAYOUT_SENSITIVE_ACTIONS_in(w) ==
    w \in {"align", "flex", "resize", "position", "center", "move", "modify_layout"}

\* class=["'][^"']*\bNAME\b  tested on the whole HTML.
ClassExists(html, n) == \E i \in 1..Len(html) : IsOpening(html[i]) /\ HasClassWord(html[i], n)
\* id=["']ID["']
IdExists(html, n) == \E i \in 1..Len(html) : IsOpening(html[i]) /\ html[i].id = n
\* <TAG[\s>]
TagExists(html, t) == \E i \in 1..Len(html) : IsOpening(html[i]) /\ html[i].tag = t

extractTagForSelector(html, selector) ==
    CASE selector.kind = "id" ->
            (LET hits == {i \in 1..Len(html) : IsOpening(html[i]) /\ html[i].id = selector.name}
             IN IF hits = {} THEN "div" ELSE html[Min(hits)].tag)
      [] selector.kind = "class" ->
            (LET hits == {i \in 1..Len(html) : IsOpening(html[i]) /\ HasClassWord(html[i], selector.name)}
             IN IF hits = {} THEN "div" ELSE html[Min(hits)].tag)
      [] OTHER -> selector.tag

\* A strategy's result: found = FALSE models null.
NoResolution == [found |-> FALSE, selector |-> NoSel, matchedTag |-> ""]
Resolution(sel, tag) == [found |-> TRUE, selector |-> sel, matchedTag |-> tag]

\* selectionContext: "undefined" (the property is absent), "elements" (holds a
\* JSON array with at least one element), "emptylist" ("[]"), "garbage" (no
\* array, or one JSON.parse rejects).
trySelectionStrategy(selectionContext, html) ==
    IF selectionContext = "elements" THEN Resolution(TagSel("body"), "body")
    ELSE NoResolution

tryDirectSelector(targetHint, html) ==
    CASE targetHint.kind = "empty" -> NoResolution
      [] targetHint.kind = "id" ->
            IF IdExists(html, targetHint.name)
            THEN Resolution(IdSel(targetHint.name), extractTagForSelector(html, IdSel(targetHint.name)))
            ELSE NoResolution
      [] targetHint.kind = "class" ->
            IF ClassExists(html, targetHint.name)
            THEN Resolution(ClassSel(targetHint.name),
                            extractTagForSelector(html, ClassSel(targetHint.name)))
            ELSE NoResolution
      [] targetHint.kind = "word" ->
            IF TagExists(html, targetHint.name)
            THEN Resolution(TagSel(targetHint.name), targetHint.name)
            ELSE NoResolution
      [] targetHint.kind = "hyphen" ->
            IF ClassExists(html, targetHint.name)
            THEN Resolution(ClassSel(targetHint.name),
                            extractTagForSelector(html, ClassSel(targetHint.name)))
            ELSE IF IdExists(html, targetHint.name)
            THEN Resolution(IdSel(targetHint.name), extractTagForSelector(html, IdSel(targetHint.name)))
            ELSE NoResolution
      [] OTHER -> NoResolution

\* The candidate loop shared by tryVisualSynonyms and tryActionFallback: a
\* candidate that starts with "." is tested as a class, any other one as
\* <candidate[\s>], which only a plain tag name can match.
CandidateExists(html, cand) ==
    CASE cand.kind = "class" -> ClassExists(html, cand.name)
      [] cand.kind = "tag" -> TagExists(html, cand.tag)
      [] OTHER -> FALSE

FirstCandidate(html, cands) ==
    LET hits == {i \in 1..Len(cands) : CandidateExists(html, cands[i])}
    IN IF hits = {} THEN NoResolution
       ELSE LET c == cands[Min(hits)]
            IN Resolution(c, IF c.kind = "class" THEN extractTagForSelector(html, c) ELSE c.tag)

tryVisualSynonyms(targetHint, html) ==
    IF targetHint.kind \in {"word"} THEN FirstCandidate(html, VISUAL_SYNONYMS(targetHint.name))
    ELSE NoResolution

\* <(\w+)[^>]*>[^<]*HINT[^<]*</\1> : an opening tag, a text run holding the
\* hint, and a close tag whose name the opening tag's name starts with.
TextSearchHit(html, hintText, i) ==
    /\ i + 2 <= Len(html)
    /\ IsOpening(html[i])
    /\ html[i + 1].k = "text" /\ SubstringOf(hintText, html[i + 1].txt)
    /\ html[i + 2].k = "close" /\ StartsWith(html[i].tag, html[i + 2].tag)

HintText(targetHint) ==
    CASE targetHint.kind = "id" -> "#" \o targetHint.name
      [] targetHint.kind = "class" -> "." \o targetHint.name
      [] OTHER -> targetHint.name

tryTextSearch(targetHint, html) ==
    IF targetHint.kind = "empty" THEN NoResolution
    ELSE
    LET hits == {i \in 1..Len(html) : TextSearchHit(html, HintText(targetHint), i)}
    IN IF hits = {} THEN NoResolution
       ELSE LET i == Min(hits)
                tag == html[i + 2].tag
            IN IF html[i].id # "" THEN Resolution(IdSel(html[i].id), tag)
               ELSE IF html[i].cls # <<>> THEN Resolution(ClassSel(html[i].cls[1]), tag)
               ELSE Resolution(TagSel(tag), tag)

tryActionFallback(action, html) ==
    IF action = "" THEN NoResolution
    ELSE FirstCandidate(html, ACTION_DEFAULTS(action))

\* The lazy pattern  <open ...>[\s\S]*?</\1>  of extractSurroundingHTML: from
\* the first opening tag the selector's pattern accepts and that has a close
\* tag of the captured name after it, to the FIRST such close tag.
SurroundMatches(selector, tok) ==
    /\ IsOpening(tok)
    /\ CASE selector.kind = "id" -> tok.id = selector.name
         [] selector.kind = "class" -> HasClassWord(tok, selector.name)
         [] selector.kind = "tag" -> StartsWith(tok.tag, selector.tag)
         [] OTHER -> FALSE

\* Close tags the back-reference \1 can stand for, for the opening tag at i:
\* for a tag selector the selector itself; for #id and .class the captured
\* (\w+), the tag name or, by backtracking, a shorter name it starts with.
SurroundCloses(html, selector, i) ==
    {j \in (i + 1)..Len(html) :
        /\ html[j].k = "close"
        /\ IF selector.kind = "tag" THEN html[j].tag = selector.tag
           ELSE StartsWith(html[i].tag, html[j].tag)}

\* The capture is tried longest first: a close tag of the full name wins over
\* one of a shorter name.
SurroundEnd(html, selector, i) ==
    LET all == SurroundCloses(html, selector, i)
        full == {j \in all : html[j].tag = html[i].tag}
    IN IF full # {} THEN Min(full) ELSE Min(all)

extractSurroundingHTML(html, selector) ==
    IF html = <<>> \/ selector.kind = "none" THEN html
    ELSE
    LET starts == {i \in 1..Len(html) :
                      SurroundMatches(selector, html[i]) /\ SurroundCloses(html, selector, i) # {}}
    IN IF starts = {} THEN html
       ELSE SubSeq(html, Min(starts), SurroundEnd(html, selector, Min(starts)))

\* The text a selector is searched as in the CSS.
SelectorText(selector) ==
    CASE selector.kind = "id" -> "#" \o selector.name
      [] selector.kind = "class" -> "." \o selector.name
      [] selector.kind = "tag" -> selector.tag
      [] selector.kind = "tagclass" -> selector.tag \o "." \o selector.name
      [] OTHER -> selector.name

\* [^{}]*SEL[^{]*\{[^}]*\} : the rules whose text before "{" holds SEL, each
\* up to its first "}".
RulesHolding(css, text) ==
    LET starts == {i \in 1..Len(css) :
                      /\ css[i].k = "sel" /\ CssContains(css[i].txt, text)
                      /\ i + 1 <= Len(css) /\ css[i + 1].k = "lb"
                      /\ \E e \in (i + 2)..Len(css) : css[e].k = "rb"}
    IN {SubSeq(css, i, Min({e \in (i + 2)..Len(css) : css[e].k = "rb"})) : i \in starts}

\* The result is a list of rule texts; the model keeps which rules they are.
extractSurroundingCSS(css, selector, matchedTag) ==
    IF css = <<>> THEN {}
    ELSE LET relevantRules ==
                 RulesHolding(css, SelectorText(selector))
                 \cup (IF matchedTag = "" THEN {} ELSE RulesHolding(css, matchedTag))
         IN IF relevantRules # {} THEN relevantRules ELSE {css}

\* resolveContext.  threw = TRUE models the exception the function ends with:
\* line 327 assigns finalStrategy, which `let` declares only at line 365, so
\* the assignment is inside the temporal dead zone and raises a ReferenceError.
ContextThrown ==
    [threw |-> TRUE, selector |-> NoSel, matchedTag |-> "", surroundingHTML |-> <<>>,
     surroundingCSS |-> {}, strategy |-> "undefined", resolvedBy |-> "none"]

\* The chain after strategy 0: direct, synonym, text search, action, body.
ResolveChain(intent_, html) ==
    LET direct == tryDirectSelector(intent_.targetHint, html)
        synonym == tryVisualSynonyms(intent_.targetHint, html)
        text == tryTextSearch(intent_.targetHint, html)
        act == tryActionFallback(intent_.action, html)
    IN IF direct.found THEN [res |-> direct, by |-> "direct"]
       ELSE IF synonym.found THEN [res |-> synonym, by |-> "synonym"]
       ELSE IF text.found THEN [res |-> text, by |-> "text-search"]
       ELSE IF act.found THEN [res |-> act, by |-> "action-fallback"]
       ELSE [res |-> Resolution(TagSel("body"), "body"), by |-> "absolute-fallback"]

\* An elevation written the wrong way round: medium becomes simple.
ElevatedStrategy_Lowered(intent_) ==
    IF /\ intent_.strategy = "medium"
       /\ \/ LAYOUT_SENSITIVE_ACTIONS_in(intent_.action)
          \/ \E w \in intent_.normalizedMessage : LAYOUT_SENSITIVE_ACTIONS_in(w)
    THEN "simple"
    ELSE intent_.strategy

\* Strategy elevation of resolveContext (lines 364-371).
ElevatedStrategy(intent_) ==
    IF /\ intent_.strategy = "simple"
       /\ \/ LAYOUT_SENSITIVE_ACTIONS_in(intent_.action)
          \/ \E w \in intent_.normalizedMessage : LAYOUT_SENSITIVE_ACTIONS_in(w)
    THEN "medium"
    ELSE intent_.strategy

resolveContext(intent_, currentCode_) ==
    LET html == currentCode_.html
        css == currentCode_.css
        selection == IF intent_.hasSelection
                     THEN trySelectionStrategy(intent_.selectionContext, html)
                     ELSE NoResolution
    IN IF selection.found THEN ContextThrown
       ELSE LET c == ResolveChain(intent_, html)
            IN [threw |-> FALSE,
                selector |-> c.res.selector,
                matchedTag |-> c.res.matchedTag,
                surroundingHTML |-> extractSurroundingHTML(html, c.res.selector),
                surroundingCSS |-> extractSurroundingCSS(css, c.res.selector, c.res.matchedTag),
                strategy |-> ElevatedStrategy(intent_),
                resolvedBy |-> c.by]

-----------------------------------------------------------------------------
(* validationService.js, lines 1-224 *)

\* null / undefined in place of a text
Null == <<[k |-> "null"]>>

\* selfClosingTags of checkHTMLSyntax.
VoidTags ==
    {"br", "hr", "img", "input", "meta", "link", "area", "base", "col", "embed",
     "source", "track", "wbr"}

\* Mutant of TagLoop: a mismatched close tag pops the stack instead of
\* leaving it as it was.
RECURSIVE TagLoop_Popped(_, _, _, _)
TagLoop_Popped(html, n, openTags, errors) ==
    IF n > Len(html) THEN <<openTags, errors>>
    ELSE LET tok == html[n] IN
         IF tok.k = "text" \/ tok.tag \in VoidTags \/ tok.k = "selfclose"
         THEN TagLoop_Popped(html, n + 1, openTags, errors)
         ELSE IF tok.k = "close"
         THEN TagLoop_Popped(html, n + 1,
                             IF openTags = <<>> THEN <<>>
                             ELSE SubSeq(openTags, 1, Len(openTags) - 1),
                             IF openTags # <<>> /\ openTags[Len(openTags)] # tok.tag
                             THEN Append(errors, "MISMATCHED_TAG") ELSE errors)
         ELSE TagLoop_Popped(html, n + 1, Append(openTags, tok.tag), errors)

\* The loop of checkHTMLSyntax over the tags n..Len(html):
\* <<openTags, errors>> at its end.
RECURSIVE TagLoop(_, _, _, _)
TagLoop(html, n, openTags, errors) ==
    IF n > Len(html) THEN <<openTags, errors>>
    ELSE LET tok == html[n] IN
         IF tok.k = "text" \/ tok.tag \in VoidTags \/ tok.k = "selfclose"
         THEN TagLoop(html, n + 1, openTags, errors)
         ELSE IF tok.k = "close"
         THEN IF openTags # <<>> /\ openTags[Len(openTags)] # tok.tag
              THEN TagLoop(html, n + 1, openTags, Append(errors, "MISMATCHED_TAG"))
              ELSE TagLoop(html, n + 1,
                           IF openTags = <<>> THEN <<>>
                           ELSE SubSeq(openTags, 1, Len(openTags) - 1),
                           errors)
         ELSE TagLoop(html, n + 1, Append(openTags, tok.tag), errors)

checkHTMLSyntax(html) ==
    IF html = <<>> THEN <<"EMPTY_HTML">>
    ELSE LET r == TagLoop(html, 1, <<>>, <<>>)
         IN IF Len(r[1]) > 3 THEN Append(r[2], "UNCLOSED_TAGS") ELSE r[2]

\* checkAntiPatterns: the warnings for a negative margin, more than three
\* !important and a fixed width of four or more digits of pixels.
checkAntiPatterns(css) ==
    (IF \E i \in 1..Len(css) : css[i].txt = "margin: -5px" THEN <<"NEGATIVE_MARGIN">> ELSE <<>>)
    \o (IF Cardinality({i \in 1..Len(css) : css[i].txt = "color: red !important"}) > 3
        THEN <<"EXCESSIVE_IMPORTANT">> ELSE <<>>)
    \o (IF \E i \in 1..Len(css) : css[i].txt = "width: 5000px" THEN <<"LARGE_FIXED_WIDTH">> ELSE <<>>)

checkCSSSyntax(css) ==
    IF css = <<>> THEN <<>>
    ELSE IF Cardinality({i \in 1..Len(css) : css[i].k = "lb"})
            # Cardinality({i \in 1..Len(css) : css[i].k = "rb"})
         THEN <<"UNBALANCED_CSS">>
         ELSE <<>>

\* What a declaration run holds:  property\s*:  and  property\s*:\s*[^;]*value.
DeclHasProperty(txt, property) ==
    <<txt, property>> \in {<<"color: red", "color">>, <<"color: blue", "color">>}
DeclHasValue(txt, property, value) ==
    <<txt, property, value>> \in {<<"color: red", "color", "red">>, <<"color: blue", "color", "blue">>}

\* html.includes(word)
HtmlIncludes(html, word) ==
    \E i \in 1..Len(html) : html[i].k = "text" /\ SubstringOf(word, html[i].txt)

\* `a || b` on texts: the empty text and null are falsy.
OrElse(a, b) == IF a = Null \/ a = <<>> THEN b ELSE a

checkPropertyApplied(intent_, originalCode, mutatedCode) ==
    LET css == OrElse(OrElse(mutatedCode.css, originalCode.css), <<>>)
        html == OrElse(OrElse(mutatedCode.html, originalCode.html), <<>>)
    IN IF \E i \in 1..Len(css) : DeclHasProperty(css[i].txt, intent_.property)
       THEN \E i \in 1..Len(css) : DeclHasValue(css[i].txt, intent_.property, intent_.value)
       ELSE HtmlIncludes(html, intent_.property) \/ HtmlIncludes(html, intent_.value)

\* isTruncated: the text ends in an ellipsis, or in an opening tag (not one of
\* br, hr, img, input, meta, link) that has no close tag anywhere.
isTruncated(html) ==
    /\ html # <<>>
    /\ LET last == html[Len(html)] IN
       \/ last.k = "text" /\ last.txt = "..."
       \/ /\ IsOpening(last)
          /\ last.tag \notin {"br", "hr", "img", "input", "meta", "link"}
          /\ ~\E i \in 1..Len(html) : html[i].k = "close" /\ html[i].tag = last.tag

validateMutation(intent_, originalCode, mutatedCode) ==
    LET htmlChanged == mutatedCode.html # Null
        cssChanged == mutatedCode.css # Null
        jsChanged == mutatedCode.javascript # Null
        errors ==
            (IF ~htmlChanged /\ ~cssChanged /\ ~jsChanged THEN <<"NO_CHANGES">> ELSE <<>>)
            \o (IF htmlChanged THEN checkHTMLSyntax(mutatedCode.html) ELSE <<>>)
            \o (IF cssChanged THEN checkCSSSyntax(mutatedCode.css) ELSE <<>>)
            \o (IF intent_.property # "" /\ intent_.value # ""
                   /\ ~checkPropertyApplied(intent_, originalCode, mutatedCode)
                THEN <<"PROPERTY_NOT_APPLIED">> ELSE <<>>)
            \o (IF htmlChanged /\ isTruncated(mutatedCode.html) THEN <<"TRUNCATED_HTML">> ELSE <<>>)
    IN [valid |-> errors = <<>>,
        errors |-> errors,
        \* buildFeedbackPrompt lists the errors; <<>> models null
        feedbackPrompt |-> errors]

-----------------------------------------------------------------------------
(* intentService.js, lines 1-234 *)

\* A message is the set of its words and what follows the marker
\* "=== SELECTED AREAS ===": "none" (no marker), "elements", "emptylist",
\* "garbage" (see trySelectionStrategy).
Message(words, selection) == [words |-> words, selection |-> selection]

\* THAI_NORMALIZATION; "th:si" and "th:jadklang" stand for the Thai words for
\* color and center.
THAI_NORMALIZATION(w) ==
    CASE w = "th:si" -> "color"
      [] w = "th:jadklang" -> "center"
      [] OTHER -> w

normalizeThaiText(words) == {THAI_NORMALIZATION(w) : w \in words}

\* Mutant of determineStrategy: the layout check comes before the complex one.
determineStrategy_LayoutFirst(action, normalizedMessage) ==
    IF /\ \E w \in normalizedMessage : SIMPLE_ACTIONS_in(w)
       /\ ~\E w \in normalizedMessage : LAYOUT_ACTIONS_in(w)
    THEN "simple"
    ELSE IF \E w \in normalizedMessage : LAYOUT_ACTIONS_in(w) THEN "medium"
    ELSE IF \E w \in normalizedMessage : COMPLEX_ACTIONS_in(w) THEN "full"
    ELSE "medium"

determineStrategy(action, normalizedMessage) ==
    IF /\ \E w \in normalizedMessage : SIMPLE_ACTIONS_in(w)
       /\ ~\E w \in normalizedMessage : LAYOUT_ACTIONS_in(w)
    THEN "simple"
    ELSE IF \E w \in normalizedMessage : COMPLEX_ACTIONS_in(w) THEN "full"
    ELSE "medium"

extractSelectionContext(message) ==
    IF message.selection = "none"
    THEN [cleanedMessage |-> message.words, hasSelection |-> FALSE, selectionContext |-> "undefined"]
    ELSE [cleanedMessage |-> message.words, hasSelection |-> TRUE,
          selectionContext |-> message.selection]

\* strategyRank[x] || 2
strategyRank(x) ==
    CASE x = "simple" -> 1
      [] x = "medium" -> 2
      [] x = "full" -> 3
      [] OTHER -> 2

\* A reply of the model to one call: kind "error" (the call throws), "nojson"
\* (a text without braces), "badjson" (JSON.parse throws) or "ok" (body is the
\* parsed object); usage is msg.usage.
Reply(kind, usage, body) == [kind |-> kind, usage |-> usage, body |-> body]

\* a || b on strings
StrOr(a, b) == IF a = "" THEN b ELSE a

\* parseIntent from the point where the call settles.
parseIntent(message, hasImage, reply_) ==
    LET sel == extractSelectionContext(message)
        normalizedMessage == normalizeThaiText(sel.cleanedMessage)
        localStrategy == determineStrategy("", normalizedMessage)
    IN IF reply_.kind = "ok"
       THEN LET parsed == reply_.body
                finalStrategy == IF strategyRank(localStrategy) <= strategyRank(parsed.complexity)
                                 THEN localStrategy ELSE parsed.complexity
            IN [action |-> StrOr(parsed.action, "modify"),
                targetHint |-> IF parsed.targetHint.kind = "empty" THEN Hint("word", "body")
                               ELSE parsed.targetHint,
                property |-> parsed.property,
                value |-> parsed.value,
                strategy |-> IF hasImage THEN "full" ELSE finalStrategy,
                normalizedMessage |-> normalizedMessage,
                hasImage |-> hasImage,
                hasSelection |-> sel.hasSelection,
                selectionContext |-> sel.selectionContext,
                usage |-> reply_.usage]
       ELSE [action |-> "modify",
             targetHint |-> Hint("word", "body"),
             property |-> "",
             value |-> "",
             strategy |-> IF hasImage THEN "full" ELSE localStrategy,
             normalizedMessage |-> normalizedMessage,
             hasImage |-> hasImage,
             hasSelection |-> sel.hasSelection,
             selectionContext |-> "undefined",
             usage |-> 0]

-----------------------------------------------------------------------------
(* mutationService.js *)

JsT(s) == [k |-> "js", txt |-> s]

\* A mutation that ended in an exception.
MutationThrown ==
    [threw |-> TRUE, html |-> Null, css |-> Null, javascript |-> Null, usage |-> 0,
     mutationType |-> "none"]

MutationResult(html, css, javascript, usage, mutationType) ==
    [threw |-> FALSE, html |-> html, css |-> css, javascript |-> javascript, usage |-> usage,
     mutationType |-> mutationType]

\* parseJSON: the parsed object of an "ok" reply; ParseFails when it returns
\* null (an "unparseable" reply: JSON.parse rejects the text and the regular
\* expressions recover none of htmlFragment, cssFragment, html, css).
\* A "malformed" reply is a text JSON.parse rejects too; its body holds what
\* the regular expressions of extractField recover, and parseJSON returns it
\* when one of htmlFragment, cssFragment, html, css is among them (line 436).
parseJSON(reply_) ==
    IF reply_.kind = "malformed" THEN [reply_.body EXCEPT !.mergeMode = StrOr(@, "replace")]
    ELSE reply_.body
ParseFails(reply_) ==
    /\ reply_.kind # "ok"
    /\ ~(/\ reply_.kind = "malformed"
         /\ \/ reply_.body.htmlFragment \notin {Null, <<>>}
            \/ reply_.body.cssFragment \notin {Null, <<>>}
            \/ reply_.body.html \notin {Null, <<>>}
            \/ reply_.body.css \notin {Null, <<>>})

\* x is truthy: neither null nor the empty text.
Truthy(x) == x # Null /\ x # <<>>

\* The three merges of executeFragmentMutation (lines 228-258).
FragmentMerged(context_, currentCode_, parsed) ==
    [html |-> IF Truthy(parsed.htmlFragment)
              THEN mergeHTMLFragment(currentCode_.html, parsed.htmlFragment, context_.selector,
                                     StrOr(parsed.mergeMode, "replace"))
              ELSE currentCode_.html,
     css |-> IF Truthy(parsed.cssFragment)
             THEN mergeCSSFragment(currentCode_.css, parsed.cssFragment, context_.selector)
             ELSE currentCode_.css,
     javascript |-> IF Truthy(parsed.jsFragment)
                    THEN IF currentCode_.javascript # <<>>
                         THEN currentCode_.javascript \o <<JsT("\n\n")>> \o parsed.jsFragment
                         ELSE parsed.jsFragment
                    ELSE currentCode_.javascript]

\* The field a fragment mutation returns for a merged text.
ChangedOrNull(merged, current) == IF merged # current THEN merged ELSE Null

executeFragmentMutation(context_, currentCode_, reply_) ==
    IF reply_.kind = "error" \/ ParseFails(reply_) THEN MutationThrown
    ELSE LET m == FragmentMerged(context_, currentCode_, parseJSON(reply_))
         IN MutationResult(ChangedOrNull(m.html, currentCode_.html),
                           ChangedOrNull(m.css, currentCode_.css),
                           ChangedOrNull(m.javascript, currentCode_.javascript),
                           reply_.usage, "fragment")

\* executeSelectionMutation, executeImageReferenceMutation and
\* executeImageEmbedMutation from the point where the call settles: the
\* fields of the parsed object, null where it has none.
WholeCodeMutation(reply_, mutationType) ==
    IF reply_.kind = "error" \/ ParseFails(reply_) THEN MutationThrown
    ELSE LET parsed == parseJSON(reply_)
         IN MutationResult(parsed.html, parsed.css, parsed.javascript, reply_.usage, mutationType)

executeSelectionMutation(reply_) == WholeCodeMutation(reply_, "selection")

\* detectImageMode: "embed" when the message holds an embed keyword.
detectImageMode(message) == IF "paste" \in message.words THEN "embed" ELSE "reference"

executeImageMutation(imageMode, reply_) ==
    WholeCodeMutation(reply_, IF imageMode = "embed" THEN "image-embed" ELSE "image-reference")

\* executeMutation: which mutation the dispatch picks.
executeMutation(intent_, context_) ==
    IF intent_.hasSelection THEN "selection"
    ELSE IF context_.strategy = "full" THEN "full"
    ELSE "fragment"

\* executeFullMutation calls buildFullPrompt (line 282) before it issues its
\* call; no module defines or imports that name, so the call raises a
\* ReferenceError and the mutation rejects without any call issued.
executeFullMutation == MutationThrown

\* The dispatched mutation issues a call (TRUE) or rejects before it (FALSE).
IssuesCall(kind) == kind # "full"

-----------------------------------------------------------------------------
(* The orchestrator: processAdaptiveRequest and its helpers                  *)
(* (server/services/validationService.js, lines 226-538)                     *)

\* A retry budget of two.
MAX_RETRIES_Two == 1 + 1

MAX_RETRIES == 1

Step(stage, n, success) == [stage |-> stage, n |-> n, success |-> success]

\* addUsage; a usage is its number of tokens.
addUsage(total, usage) == total + usage

Code(html, css, javascript) == [html |-> html, css |-> css, javascript |-> javascript]

NoBody ==
    [action |-> "", targetHint |-> Hint("empty", ""), property |-> "", value |-> "",
     complexity |-> "undefined", htmlFragment |-> Null, cssFragment |-> Null,
     jsFragment |-> Null, mergeMode |-> "", html |-> Null, css |-> Null, javascript |-> Null]

NoReply == Reply("none", 0, NoBody)

NoIntent == parseIntent(Message({}, "none"), FALSE, NoReply)

NoContext ==
    [threw |-> FALSE, selector |-> NoSel, matchedTag |-> "", surroundingHTML |-> <<>>,
     surroundingCSS |-> {}, strategy |-> "undefined", resolvedBy |-> "none"]

NoValidation == [valid |-> TRUE, errors |-> <<>>, feedbackPrompt |-> <<>>]

NoResult ==
    [html |-> Null, css |-> Null, javascript |-> Null, usage |-> 0, strategy |-> "",
     mutationType |-> "", steps |-> <<>>]

\* The locals of one run of processAdaptiveRequest, as one record.
Locals ==
    [pc |-> pc, mutKind |-> mutKind, intent |-> intent, context |-> context,
     mutationResult |-> mutationResult, validation |-> validation, retry |-> retry,
     totalUsage |-> totalUsage, pipelineSteps |-> pipelineSteps, result |-> result,
     llmCalls |-> llmCalls, classified |-> classified, dispatched |-> dispatched,
     issuedUsage |-> issuedUsage]

NoLocals ==
    [pc |-> "idle", mutKind |-> "none", intent |-> NoIntent, context |-> NoContext,
     mutationResult |-> MutationThrown, validation |-> NoValidation, retry |-> 0,
     totalUsage |-> 0, pipelineSteps |-> <<>>, result |-> NoResult,
     llmCalls |-> <<>>, classified |-> "", dispatched |-> <<>>, issuedUsage |-> 0]

\* anthropic.messages.create(...) is called: the call is in flight.
IssueCall(s, stage, call) ==
    [s EXCEPT !.pc = stage,
              !.llmCalls = Append(@, [stage |-> stage, call |-> call, outcome |-> "pending"])]

\* The call in flight settles with reply r (an "error" reply carries no usage).
SettleCall(s, r) ==
    [s EXCEPT !.llmCalls[Len(s.llmCalls)].outcome = r.kind,
              !.issuedUsage = IF r.kind = "error" THEN @ ELSE @ + r.usage]

\* executeOriginalFlow up to its call (lines 388-465).
EnterOriginalFlow(s) == IssueCall(s, "original", "original")

finalizePipeline(s, res, strategyOverride) ==
    [s EXCEPT !.pc = "returned",
              !.result = [html |-> res.html, css |-> res.css, javascript |-> res.javascript,
                          usage |-> s.totalUsage,
                          strategy |-> IF strategyOverride \notin {"", "undefined"}
                                       THEN strategyOverride
                                       ELSE StrOr(res.mutationType, "unknown"),
                          mutationType |-> res.mutationType,
                          steps |-> s.pipelineSteps]]

\* executeMutation(intent, context, ...) is called at the given stage: a call
\* is issued, or the mutation rejects at once and onThrow is what follows.
Dispatch(s, stage, onThrow) ==
    LET kind == executeMutation(s.intent, s.context)
        d == [s EXCEPT !.dispatched = Append(@, s.context.strategy), !.mutKind = kind]
    IN IF IssuesCall(kind) THEN IssueCall(d, stage, kind)
       ELSE [onThrow EXCEPT !.dispatched = d.dispatched]

\* The catch block, were it to run the mutation again as stage 3.
Escalate_Redispatch(s) ==
    LET c == [s EXCEPT !.pipelineSteps = Append(@, Step("mutation", 0, FALSE)),
                       !.intent.strategy = "full",
                       !.context.strategy = "full"]
    IN Dispatch(c, "mutation", EnterOriginalFlow(c))

\* The catch block of stage 3 (lines 306-317) up to its await.
Escalate(s) ==
    LET c == [s EXCEPT !.pipelineSteps = Append(@, Step("mutation", 0, FALSE)),
                       !.intent.strategy = "full",
                       !.context.strategy = "full"]
    IN Dispatch(c, "fallback", EnterOriginalFlow(c))

\* The retry loop (lines 326-346) from the top of iteration s.retry up to its
\* next await, or to the return.
RECURSIVE RetryLoop(_)
RetryLoop(s) ==
    IF s.retry >= MAX_RETRIES THEN finalizePipeline(s, s.mutationResult, s.context.strategy)
    ELSE Dispatch(s, "retry",
                  RetryLoop([s EXCEPT !.pipelineSteps = Append(@, Step("retry", s.retry + 1, FALSE)),
                                      !.retry = @ + 1]))

\* Stage 4 (lines 319-348) for the mutation result m of the step just pushed
\* and its validation v.
Validate(s, m, v) ==
    LET d == [s EXCEPT !.mutationResult = m,
                       !.totalUsage = addUsage(@, m.usage),
                       !.validation = v,
                       !.retry = 0,
                       !.pipelineSteps = Append(@, Step("validation", 0, v.valid))]
    IN IF ~v.valid /\ v.feedbackPrompt # <<>> THEN RetryLoop(d)
       ELSE finalizePipeline(d, m, d.context.strategy)

\* What the awaited mutation call yields for reply r.
Mutated(kind, context_, r, currentCode_) ==
    IF kind = "selection" THEN executeSelectionMutation(r)
    ELSE executeFragmentMutation(context_, currentCode_, r)

\* Lines 262-303: from the settled classification call, with the intent i
\* parseIntent returns and the context ctx resolveContext returns for it, to
\* the next await.
AfterIntent(s, i, ctx, image) ==
    LET a == [s EXCEPT !.intent = i,
                       !.classified = i.strategy,
                       !.totalUsage = addUsage(@, i.usage),
                       !.pipelineSteps = Append(@, Step("intent", 0, TRUE))]
        b == [a EXCEPT !.context = ctx,
                       !.pipelineSteps = Append(@, Step("context", 0, TRUE))]
    IN IF image THEN IssueCall(a, "image", "image")
       ELSE IF ctx.threw THEN EnterOriginalFlow(a)
       ELSE Dispatch(b, "mutation", Escalate(b))

\* Lines 303-348 after the first mutation call settled with the result m,
\* whose validation is v.
AfterMutation(s, m, v) ==
    IF m.threw THEN Escalate(s)
    ELSE Validate([s EXCEPT !.pipelineSteps = Append(@, Step("mutation", 0, TRUE))], m, v)

\* Lines 313-348 after the call of the escalated mutation settled; an
\* exception here leaves the outer try.
AfterFallback(s, m, v) ==
    IF m.threw THEN EnterOriginalFlow(s)
    ELSE Validate([s EXCEPT !.pipelineSteps = Append(@, Step("mutation-fallback", 0, TRUE))], m, v)
\* Mutant of AfterRetry: a retry that throws falls through to OriginalFlow.
AfterRetry_ToOriginal(s, m, v) ==
    LET ok == [s EXCEPT !.mutationResult = m,
                        !.totalUsage = addUsage(@, m.usage),
                        !.pipelineSteps = Append(@, Step("retry", s.retry + 1, v.valid))]
        failed == [s EXCEPT !.pipelineSteps = Append(@, Step("retry", s.retry + 1, FALSE))]
    IN IF m.threw THEN EnterOriginalFlow(failed)
       ELSE IF v.valid THEN finalizePipeline(ok, m, ok.context.strategy)
       ELSE RetryLoop([ok EXCEPT !.retry = @ + 1])

\* Lines 330-345 after the call of retry s.retry settled.
AfterRetry(s, m, v) ==
    LET ok == [s EXCEPT !.mutationResult = m,
                        !.totalUsage = addUsage(@, m.usage),
                        !.pipelineSteps = Append(@, Step("retry", s.retry + 1, v.valid))]
        failed == [s EXCEPT !.pipelineSteps = Append(@, Step("retry", s.retry + 1, FALSE))]
    IN IF m.threw THEN RetryLoop([failed EXCEPT !.retry = @ + 1])
       ELSE IF v.valid THEN finalizePipeline(ok, m, ok.context.strategy)
       ELSE RetryLoop([ok EXCEPT !.retry = @ + 1])

\* Lines 276-289 after the call of the image mutation settled with result m.
AfterImage(s, m) ==
    IF m.threw
    THEN EnterOriginalFlow([s EXCEPT !.pipelineSteps = Append(@, Step("image-mutation", 0, FALSE))])
    ELSE finalizePipeline([s EXCEPT !.totalUsage = addUsage(@, m.usage),
                                    !.pipelineSteps = Append(@, Step("image-mutation", 0, TRUE))],
                          m, "")

\* executeOriginalFlow after its call settled (lines 465-522).  A reply the
\* JSON parser rejects goes through the regular expressions: "unparseable"
\* is such a text with no field to recover.  "jsonnull" is the text `null`:
\* reading parsed.html throws.
AfterOriginal(s, r) ==
    IF r.kind = "error" THEN [s EXCEPT !.pc = "failed"]
    ELSE LET u == [s EXCEPT !.totalUsage = addUsage(@, r.usage)]
             parsed == IF r.kind \in {"ok", "malformed"} THEN r.body ELSE NoBody
             done == [u EXCEPT !.pipelineSteps = Append(@, Step("original-fallback", 0, TRUE))]
         IN IF r.kind = "jsonnull" THEN [u EXCEPT !.pc = "failed"]
            ELSE [done EXCEPT !.pc = "returned",
                              !.result = [html |-> parsed.html, css |-> parsed.css,
                                          javascript |-> parsed.javascript,
                                          usage |-> done.totalUsage,
                                          strategy |-> "fallback",
                                          mutationType |-> "full",
                                          steps |-> done.pipelineSteps]]

-----------------------------------------------------------------------------
(* The server: POST /api/adaptive-chat (server/index.js)                     *)

MaxRequests == 2

ConversationIds == {"c1"}

EmptyCode == Code(<<>>, <<>>, <<>>)

\* conversationStates.get(id) || { html: '', css: '', javascript: '' }
StoredOrEmpty(states, id) == IF states[id].present THEN states[id].code ELSE EmptyCode

\* `submitted !== undefined ? submitted : stored` (lines 370-372); Null
\* stands for a field the request body does not have.
Submitted(submitted, stored) == IF submitted # Null THEN submitted ELSE stored

\* A null field of the result replaced by the empty text.
ResultOrCurrent_Empty(r, current) == IF r # Null THEN r ELSE <<>>

\* `r !== null && r !== undefined ? r : current` (lines 387-391)
ResultOrCurrent(r, current) == IF r # Null THEN r ELSE current

ServerInit ==
    /\ conversationStates = [id \in ConversationIds |-> [present |-> FALSE, code |-> EmptyCode]]
    /\ conversations = [id \in ConversationIds |-> [present |-> FALSE, messages |-> <<>>]]
    /\ req = [conversationId |-> "c1", message |-> Message({}, "none"), image |-> FALSE,
              html |-> Null, css |-> Null, javascript |-> Null]
    /\ currentCode = EmptyCode
    /\ response = "none"
    /\ served = 0
    /\ reply = NoReply
    /\ pc = NoLocals.pc
    /\ mutKind = NoLocals.mutKind
    /\ intent = NoLocals.intent
    /\ context = NoLocals.context
    /\ mutationResult = NoLocals.mutationResult
    /\ validation = NoLocals.validation
    /\ retry = NoLocals.retry
    /\ totalUsage = NoLocals.totalUsage
    /\ pipelineSteps = NoLocals.pipelineSteps
    /\ result = NoLocals.result
    /\ llmCalls = NoLocals.llmCalls
    /\ classified = NoLocals.classified
    /\ dispatched = NoLocals.dispatched
    /\ issuedUsage = NoLocals.issuedUsage

\* The locals of processAdaptiveRequest become s.
SetLocals(s) ==
    /\ pc' = s.pc
    /\ mutKind' = s.mutKind
    /\ intent' = s.intent
    /\ context' = s.context
    /\ mutationResult' = s.mutationResult
    /\ validation' = s.validation
    /\ retry' = s.retry
    /\ totalUsage' = s.totalUsage
    /\ pipelineSteps' = s.pipelineSteps
    /\ result' = s.result
    /\ llmCalls' = s.llmCalls
    /\ classified' = s.classified
    /\ dispatched' = s.dispatched
    /\ issuedUsage' = s.issuedUsage

harnessVars ==
    <<mPc, mD, mF, mS, mMode, mR1, mR2, rPc, rIntent, rCode, rOut,
      cPc, cFull, cFrag, cOut, kPc, kMessage, kImage, kReply, kIntent, fPc, fIn, fOut,
      heap, stateOf, inFlight, arrivals>>

\* A request arrives: lines 358-384 of the handler, then processAdaptiveRequest
\* up to the await of the classification call (parseIntent, line 175).
Request(id, message, image, submitted) ==
    /\ pc = "idle"
    /\ served < MaxRequests
    /\ LET stored == StoredOrEmpty(conversationStates, id)
           code == Code(Submitted(submitted.html, stored.html),
                        Submitted(submitted.css, stored.css),
                        Submitted(submitted.javascript, stored.javascript))
       IN /\ currentCode' = code
          /\ conversationStates' = [conversationStates EXCEPT ![id] = [present |-> TRUE, code |-> code]]
    /\ conversations' = [conversations EXCEPT ![id].present = TRUE]
    /\ req' = [conversationId |-> id, message |-> message, image |-> image,
               html |-> submitted.html, css |-> submitted.css, javascript |-> submitted.javascript]
    /\ served' = served + 1
    /\ response' = "none"
    /\ reply' = NoReply
    /\ \E n \in {IssueCall(NoLocals, "intent", "classification")} : SetLocals(n)
    /\ UNCHANGED harnessVars

\* The classification call settles.
IntentResponse(r) ==
    /\ pc = "intent"
    /\ reply' = r
    /\ \E s \in {SettleCall(Locals, r)}, i \in {parseIntent(req.message, req.image, r)} :
           \E ctx \in {resolveContext(i, currentCode)} :
               \E n \in {AfterIntent(s, i, ctx, req.image)} : SetLocals(n)
    /\ UNCHANGED <<conversationStates, conversations, req, currentCode, response, served, harnessVars>>

\* The call of the image mutation settles.
ImageResponse(r) ==
    /\ pc = "image"
    /\ reply' = r
    /\ \E s \in {SettleCall(Locals, r)}, m \in {executeImageMutation(detectImageMode(req.message), r)} :
           \E n \in {AfterImage(s, m)} : SetLocals(n)
    /\ UNCHANGED <<conversationStates, conversations, req, currentCode, response, served, harnessVars>>

\* The call of the first mutation settles.
MutationResponse(r) ==
    /\ pc = "mutation"
    /\ reply' = r
    /\ \E s \in {SettleCall(Locals, r)}, m \in {Mutated(mutKind, context, r, currentCode)} :
           \E v \in {validateMutation(intent, currentCode, m)} :
               \E n \in {AfterMutation(s, m, v)} : SetLocals(n)
    /\ UNCHANGED <<conversationStates, conversations, req, currentCode, response, served, harnessVars>>

\* The call of the escalated mutation settles.
FallbackResponse(r) ==
    /\ pc = "fallback"
    /\ reply' = r
    /\ \E s \in {SettleCall(Locals, r)}, m \in {Mutated(mutKind, context, r, currentCode)} :
           \E v \in {validateMutation(intent, currentCode, m)} :
               \E n \in {AfterFallback(s, m, v)} : SetLocals(n)
    /\ UNCHANGED <<conversationStates, conversations, req, currentCode, response, served, harnessVars>>

\* The call of a retry settles.
RetryResponse(r) ==
    /\ pc = "retry"
    /\ reply' = r
    /\ \E s \in {SettleCall(Locals, r)}, m \in {Mutated(mutKind, context, r, currentCode)} :
           \E v \in {validateMutation(intent, currentCode, m)} :
               \E n \in {AfterRetry(s, m, v)} : SetLocals(n)
    /\ UNCHANGED <<conversationStates, conversations, req, currentCode, response, served, harnessVars>>

\* The call of executeOriginalFlow settles.
OriginalResponse(r) ==
    /\ pc = "original"
    /\ reply' = r
    /\ \E s \in {SettleCall(Locals, r)} : \E n \in {AfterOriginal(s, r)} : SetLocals(n)
    /\ UNCHANGED <<conversationStates, conversations, req, currentCode, response, served, harnessVars>>

\* processAdaptiveRequest returned: lines 386-402 of the handler.
RespondResult ==
    /\ pc = "returned"
    /\ conversationStates' =
           [conversationStates EXCEPT ![req.conversationId] =
               [present |-> TRUE,
                code |-> Code(ResultOrCurrent(result.html, currentCode.html),
                              ResultOrCurrent(result.css, currentCode.css),
                              ResultOrCurrent(result.javascript, currentCode.javascript))]]
    /\ conversations' =
           [conversations EXCEPT ![req.conversationId].messages = @ \o <<"user", "assistant">>]
    /\ response' = "result"
    /\ reply' = NoReply
    /\ \E n \in {[NoLocals EXCEPT !.result = result]} : SetLocals(n)
    /\ UNCHANGED <<req, currentCode, served, harnessVars>>

\* The catch block, were it to record the failed exchange in the history.
RespondError_Recorded ==
    /\ pc = "failed"
    /\ conversations' =
           [conversations EXCEPT ![req.conversationId].messages = @ \o <<"user", "assistant">>]
    /\ response' = "error"
    /\ reply' = NoReply
    /\ \E n \in {NoLocals} : SetLocals(n)
    /\ UNCHANGED <<conversationStates, req, currentCode, served, harnessVars>>

\* processAdaptiveRequest threw: the catch block of the handler (403-406).
RespondError ==
    /\ pc = "failed"
    /\ response' = "error"
    /\ reply' = NoReply
    /\ \E n \in {NoLocals} : SetLocals(n)
    /\ UNCHANGED <<conversationStates, conversations, req, currentCode, served, harnessVars>>

-----------------------------------------------------------------------------
(* Each specification below drives one part of the model; the variables of  *)
(* the other parts stay at these values.                                    *)

MergeOff ==
    /\ mPc = "off" /\ mD = <<>> /\ mF = <<>> /\ mS = NoSel /\ mMode = "replace"
    /\ mR1 = <<>> /\ mR2 = <<>>

ResolveOff ==
    /\ rPc = "off" /\ rIntent = <<>> /\ rCode = <<>> /\ rOut = <<>>

CssOff ==
    /\ cPc = "off" /\ cFull = <<>> /\ cFrag = <<>> /\ cOut = <<>>

ClassifyOff ==
    /\ kPc = "off" /\ kMessage = Message({}, "none") /\ kImage = FALSE
    /\ kReply = NoReply /\ kIntent = NoIntent

FunOff ==
    /\ fPc = "off" /\ fIn = <<>> /\ fOut = <<>>

HandlerOff ==
    /\ heap = <<>> /\ stateOf = <<>> /\ inFlight = <<>> /\ arrivals = 0

-----------------------------------------------------------------------------
(* Resolver harness: resolveContext applied to intents and documents drawn  *)
(* from bounded sets.                                                       *)

Strategies == {"simple", "medium", "full"}

ResolveDocs ==
    {<<>>,
     <<Open("section", "", <<"hero-section">>), Open("p", "", <<>>), Text("hello"),
       Close("p"), Close("section")>>,
     <<Open("div", "main-box", <<>>), Open("div", "", <<"card">>), Text("welcome home"),
       Close("div"), Close("div")>>,
     <<Open("body", "", <<>>), Open("h1", "", <<>>), Text("our hero story"), Close("h1"),
       Close("body")>>}

ResolveCss ==
    {<<>>, <<SelT(".card .box"), LB, DeclT("color: red"), RB, SelT("p"), LB, DeclT("margin: 0"), RB>>}

ResolveHints ==
    {Hint("id", "missing-id"), Hint("id", "main-box"), Hint("class", "hero"),
     Hint("word", "hero"), Hint("word", "p"), Hint("hyphen", "hero-section"),
     Hint("phrase", "welcome"), Hint("word", "body"), Hint("empty", "")}

ResolveActions == {"modify", "recolor", "align", ""}

ResolveMessages == {{}, {"color"}, {"color", "center"}}

SelectionContexts == {"undefined", "elements", "emptylist", "garbage"}

ResolveIntents ==
    {[action |-> a, targetHint |-> h, strategy |-> st, normalizedMessage |-> m,
      hasSelection |-> hs, selectionContext |-> sc] :
        a \in ResolveActions, h \in ResolveHints, st \in Strategies,
        m \in ResolveMessages, hs \in BOOLEAN, sc \in SelectionContexts}

ResolveInit ==
    /\ ServerInit
    /\ FunOff
    /\ HandlerOff
    /\ MergeOff
    /\ CssOff
    /\ ClassifyOff
    /\ rPc = "ready"
    /\ rIntent \in {i \in ResolveIntents : ~i.hasSelection => i.selectionContext = "undefined"}
    /\ rCode \in {[html |-> h, css |-> c] : h \in ResolveDocs, c \in ResolveCss}
    /\ rOut = <<>>

Resolve ==
    /\ rPc = "ready"
    /\ rOut' = resolveContext(rIntent, rCode)
    /\ rPc' = "resolved"
    /\ UNCHANGED <<rIntent, rCode, mergeVars, cssVars, classifyVars, funVars, handlerVars, serverVars, pipelineVars>>

ResolveNext == Resolve

ResolveSpec == ResolveInit /\ [][ResolveNext]_vars

\* C1: resolveContext returns normally with a non-null selector for every
\* intent and document (an explicit selection included), and with selector
\* body when only the absolute fallback applies.
C1_ResolveTotal ==
    rPc = "resolved" =>
        /\ ~rOut.threw
        /\ rOut.selector # NoSel
        /\ (rOut.resolvedBy = "absolute-fallback" => rOut.selector = TagSel("body"))

\* What each strategy of the resolver yields for the intent and the document
\* resolved, in the documented order of priority.
StrategyResults ==
    <<[by |-> "selection",
       res |-> IF rIntent.hasSelection
               THEN trySelectionStrategy(rIntent.selectionContext, rCode.html)
               ELSE NoResolution],
      [by |-> "direct", res |-> tryDirectSelector(rIntent.targetHint, rCode.html)],
      [by |-> "synonym", res |-> tryVisualSynonyms(rIntent.targetHint, rCode.html)],
      [by |-> "text-search", res |-> tryTextSearch(rIntent.targetHint, rCode.html)],
      [by |-> "action-fallback", res |-> tryActionFallback(rIntent.action, rCode.html)],
      [by |-> "absolute-fallback", res |-> Resolution(TagSel("body"), "body")]>>

FirstSuccess == Min({i \in 1..Len(StrategyResults) : StrategyResults[i].res.found})

\* C21: the resolver returns the selector of the first strategy that succeeds,
\* in the order selection, direct, synonym, text search, action default,
\* absolute fallback, and resolvedBy names that strategy; an id hint absent
\* from the document ends at body when no later strategy hits.
C21_FirstStrategyWins ==
    rPc = "resolved"
    => /\ ~rOut.threw
       /\ rOut.resolvedBy = StrategyResults[FirstSuccess].by
       /\ rOut.selector = StrategyResults[FirstSuccess].res.selector
       /\ (rIntent.targetHint = Hint("id", "missing-id") /\ FirstSuccess = 6)
            => rOut.selector = TagSel("body")

\* Some element of the document carries exactly the class name n.
HasExactClass(html, n) ==
    \E i \in 1..Len(html) : IsOpening(html[i]) /\ \E j \in 1..Len(html[i].cls) : html[i].cls[j] = n

\* C22: for the hint hero and a document with an element of class
\* hero-section and none of class hero, the direct strategy fails and the
\* synonym strategy resolves the selector .hero-section.
C22_SynonymExactClass ==
    (/\ rPc = "resolved"
     /\ ~rIntent.hasSelection
     /\ rIntent.targetHint = Hint("word", "hero")
     /\ HasExactClass(rCode.html, "hero-section")
     /\ ~HasExactClass(rCode.html, "hero"))
    => /\ ~tryDirectSelector(rIntent.targetHint, rCode.html).found
       /\ rOut.resolvedBy = "synonym"
       /\ rOut.selector = ClassSel("hero-section")

\* The element opened at index i of html is the one the selector names.
SelectorNames(selector, tok) ==
    /\ tok.k = "open"
    /\ CASE selector.kind = "id" -> tok.id = selector.name
         [] selector.kind = "class" -> \E c \in 1..Len(tok.cls) : tok.cls[c] = selector.name
         [] selector.kind = "tag" -> tok.tag = selector.tag
         [] OTHER -> FALSE

\* The indexes j at which the element opened at i is closed again at depth
\* zero: as many close tags as open tags of its name lie in i..j.
BalancedCloses(html, i) ==
    {j \in (i + 1)..Len(html) :
        /\ html[j].k = "close" /\ html[j].tag = html[i].tag
        /\ Cardinality({n \in i..j : html[n].k = "open" /\ html[n].tag = html[i].tag})
             = Cardinality({n \in i..j : html[n].k = "close" /\ html[n].tag = html[i].tag})}

\* C27: for a selector that names an element with a balanced close tag, the
\* surrounding HTML returned by resolveContext is the text from the open tag
\* of the first such element through its balanced close tag.
C27_BalancedExtract ==
    (rPc = "resolved" /\ ~rOut.threw)
    => LET html == rCode.html
           bounded == {i \in 1..Len(html) :
                          SelectorNames(rOut.selector, html[i]) /\ BalancedCloses(html, i) # {}}
       IN bounded # {}
          => rOut.surroundingHTML
               = SubSeq(html, Min(bounded), Min(BalancedCloses(html, Min(bounded))))

-----------------------------------------------------------------------------
(* Merge harness: mergeHTMLFragment applied once and then a second time to  *)
(* its own result, on documents, fragments, selectors and modes drawn from  *)
(* bounded sets.                                                            *)

DocTokens ==
    {Open("div", "", <<"box">>), Open("div", "", <<>>), Open("divx", "", <<>>),
     Close("div"), Text("old")}

Documents == SeqsUpTo(DocTokens, MaxDocLen)

Fragments ==
    {<<Text("new")>>,
     <<Open("div", "", <<>>), Text("new"), Close("div")>>,
     <<Close("div"), Open("div", "", <<>>)>>,
     <<Open("div", "", <<>>)>>,
     <<Close("div")>>}

MergeSelectors == {ClassSel("box"), TagSel("div"), TagClassSel("div", "box"), OtherSel("div > p")}

\* "prepend" stands for a mergeMode of the model's reply that is none of the three.
MergeModes == {"replace", "append", "wrap", "prepend"}

MergeInit ==
    /\ ServerInit
    /\ FunOff
    /\ HandlerOff
    /\ ResolveOff
    /\ CssOff
    /\ ClassifyOff
    /\ mPc = "chosen"
    /\ mD \in Documents
    /\ mF \in Fragments
    /\ mS \in MergeSelectors
    /\ mMode \in MergeModes
    /\ mR1 = <<>>
    /\ mR2 = <<>>

MergeOnce ==
    /\ mPc = "chosen"
    /\ mR1' = mergeHTMLFragment(mD, mF, mS, mMode)
    /\ mPc' = "once"
    /\ UNCHANGED <<mD, mF, mS, mMode, mR2, resolveVars, cssVars, classifyVars, funVars, handlerVars, serverVars, pipelineVars>>

MergeTwice ==
    /\ mPc = "once"
    /\ mR2' = mergeHTMLFragment(mR1, mF, mS, mMode)
    /\ mPc' = "twice"
    /\ UNCHANGED <<mD, mF, mS, mMode, mR1, resolveVars, cssVars, classifyVars, funVars, handlerVars, serverVars, pipelineVars>>

MergeNext == MergeOnce \/ MergeTwice

MergeSpec == MergeInit /\ [][MergeNext]_vars

\* The element the selector matches in mD, and its close tag (0 / -1: none).
MatchIn(html, selector) ==
    LET pat == buildSelectorPattern(selector)
    IN IF pat.ok THEN TagRegexExec(pat, html) ELSE 0

CloseIn(html, selector) ==
    LET pat == buildSelectorPattern(selector)
        m == MatchIn(html, selector)
    IN IF m = 0 THEN -1 ELSE findClosingTag(html, pat.tagName, m)

\* Tag name the closing-tag search of mergeHTMLFragment uses for the match.
SearchedTag(html, selector) ==
    LET pat == buildSelectorPattern(selector)
    IN IF pat.tagName = "" THEN html[MatchIn(html, selector)].tag ELSE pat.tagName

\* Depth after the tokens 1..n of frag, counting as the closing-tag search
\* counts: +1 for an opening tag of the name, -1 for a close tag of the name.
RECURSIVE DepthAfter(_, _, _)
DepthAfter(frag, tagName, n) ==
    IF n = 0 THEN 0
    ELSE DepthAfter(frag, tagName, n - 1)
         + (IF OpenPatternMatches(frag[n], tagName) THEN 1
            ELSE IF ClosePatternMatches(frag[n], tagName) THEN -1 ELSE 0)

BalancedFor(frag, tagName) ==
    /\ \A n \in 0..Len(frag) : DepthAfter(frag, tagName, n) >= 0
    /\ DepthAfter(frag, tagName, Len(frag)) = 0

\* C10 (as stated): replace-merge is idempotent for every document, every
\* fragment and every selector that matches an element of the document.
C10_ReplaceIdempotentAny ==
    (mPc = "twice" /\ mMode = "replace" /\ MatchIn(mD, mS) # 0) => mR2 = mR1

\* C10 (amended): replace-merge is idempotent when the matched element has a
\* balanced close tag, its open tag carries exactly the tag name the close-tag
\* search looks for, and the tags of that name in the fragment are balanced.
C10_ReplaceIdempotentBalanced ==
    (/\ mPc = "twice" /\ mMode = "replace"
     /\ MatchIn(mD, mS) # 0
     /\ CloseIn(mD, mS) # -1
     /\ mD[MatchIn(mD, mS)].tag = SearchedTag(mD, mS)
     /\ BalancedFor(mF, SearchedTag(mD, mS)))
    => mR2 = mR1

\* A second replace with a fragment that nests the target's tag name.
C10_Witness ==
    /\ mPc = "twice" /\ mMode = "replace"
    /\ MatchIn(mD, mS) # 0
    /\ CloseIn(mD, mS) # -1
    /\ mD[MatchIn(mD, mS)].tag = SearchedTag(mD, mS)
    /\ BalancedFor(mF, SearchedTag(mD, mS))
    /\ \E i \in 1..Len(mF) : OpenPatternMatches(mF[i], SearchedTag(mD, mS))
    /\ mR1 # mD

\* The last n tokens of a text.
LastTokens(t, n) == SubSeq(t, Len(t) - n + 1, Len(t))

\* C11: when the selector resolves to no bounded region of a non-empty
\* document (unsupported syntax, no matching open tag, no balanced close tag)
\* the result is the whole document followed by the fragment, in every mode.
C11_UnresolvedAppends ==
    (mPc # "chosen" /\ mD # <<>> /\ CloseIn(mD, mS) = -1)
    => /\ Len(mR1) >= Len(mD) + Len(mF)
       /\ SubSeq(mR1, 1, Len(mD)) = mD
       /\ LastTokens(mR1, Len(mF)) = mF

\* C12: in wrap mode with a matched, bounded element the result is the
\* document with exactly the span from the matched open tag through its close
\* tag replaced by the fragment, for every kind of selector.
C12_WrapReplacesElement ==
    (mPc # "chosen" /\ mMode = "wrap" /\ CloseIn(mD, mS) # -1)
    => mR1 = SubSeq(mD, 1, MatchIn(mD, mS) - 1) \o mF
                \o SubSeq(mD, CloseIn(mD, mS) + 1, Len(mD))

\* The frame of one replace or append of fragment f into document d giving r:
\* d up to and including the matched open tag and d from the close tag found
\* onward are kept; in between stands the fragment alone (replace) or the old
\* inner content with the fragment immediately before the close tag (append).
FrameKept(d, f, selector, mode, r) ==
    LET m == MatchIn(d, selector)
        c == CloseIn(d, selector)
        tail == Len(d) - c + 1
    IN /\ SubSeq(r, 1, m) = SubSeq(d, 1, m)
       /\ LastTokens(r, tail) = SubSeq(d, c, Len(d))
       /\ \A t \in {"div", "divx"} :
             Cardinality({i \in 1..m : r[i].tag = t /\ r[i].k = "open"})
                 = Cardinality({i \in 1..m : d[i].tag = t /\ d[i].k = "open"})
       /\ IF mode = "replace"
          THEN /\ Len(r) = m + Len(f) + 2 + tail
               /\ SubSeq(r, m + 2, m + 1 + Len(f)) = f
          ELSE /\ Len(r) = Len(d) + Len(f) + 1
               /\ SubSeq(r, m + 1, c - 1) = SubSeq(d, m + 1, c - 1)
               /\ SubSeq(r, c + 1, c + Len(f)) = f

\* C13: replace and append with a matched, bounded element keep everything up
\* to and including the matched open tag and everything from the close tag
\* onward; replace swaps the inner content, append adds one copy of the
\* fragment immediately before the close tag, and so does a second append.
C13_FrameKept ==
    /\ (mPc # "chosen" /\ mMode \in {"replace", "append"} /\ CloseIn(mD, mS) # -1)
        => FrameKept(mD, mF, mS, mMode, mR1)
    /\ (mPc = "twice" /\ mMode = "append" /\ CloseIn(mD, mS) # -1 /\ CloseIn(mR1, mS) # -1)
        => /\ FrameKept(mR1, mF, mS, mMode, mR2)
           /\ Len(mR2) = Len(mD) + 2 * (Len(mF) + 1)
           /\ mR2 # mR1

\* Two appends into an element that has text before it and after it.
C13_Witness ==
    /\ mPc = "twice" /\ mMode = "append"
    /\ CloseIn(mD, mS) # -1 /\ CloseIn(mR1, mS) # -1
    /\ MatchIn(mD, mS) > 1 /\ CloseIn(mD, mS) < Len(mD)

\* C14: an index returned by the closing-tag finder is a close tag of the
\* matched element's own tag name at which the depth, 1 at the matched open
\* tag, is back to 0 for the first time; a tag selector matches no tag whose
\* name merely begins with the selector.
C14_CloseAtDepthZero ==
    (mPc # "chosen" /\ CloseIn(mD, mS) # -1)
    => LET m == MatchIn(mD, mS)
           c == CloseIn(mD, mS)
           after == SubSeq(mD, m + 1, c)
       IN /\ mD[c].k = "close"
          /\ mD[c].tag = mD[m].tag
          /\ 1 + DepthAfter(after, mD[m].tag, Len(after)) = 0
          /\ \A n \in 0..(Len(after) - 1) : 1 + DepthAfter(after, mD[m].tag, n) > 0
          /\ (mS.kind \in {"tag", "tagclass"} => mD[m].tag = mS.tag)

\* fragment occurs in text as a run of consecutive tokens.
ContainsFragment(text, fragment) ==
    \E i \in 0..(Len(text) - Len(fragment)) :
        SubSeq(text, i + 1, i + Len(fragment)) = fragment

\* C26: for a non-empty document and fragment, any selector and any mode
\* value, the text returned by mergeHTMLFragment contains the fragment.
C26_FragmentNeverDropped ==
    (mPc = "once" /\ mD # <<>> /\ mF # <<>>) => ContainsFragment(mR1, mF)


-----------------------------------------------------------------------------
(* CSS merge harness: mergeCSSFragment applied to style sheets and fragments *)
(* drawn from bounded sets.                                                  *)

MaxRules == 2

CssRule(selector, declarations) == <<SelT(selector), LB, DeclT(declarations), RB>>

RECURSIVE Flatten(_)
Flatten(texts) == IF texts = <<>> THEN <<>> ELSE Head(texts) \o Flatten(Tail(texts))

FullRulePool ==
    {CssRule(".box", "color: red"), CssRule(".card .box", "color: red"), CssRule("p", "margin: 0")}

StyleSheets == {Flatten(rs) : rs \in SeqsUpTo(FullRulePool, MaxRules)}

MediaBlock(rules) == <<SelT("@media (max-width: 600px)"), LB>> \o rules \o <<RB>>

CssFragments ==
    {<<>>,
     <<DeclT("color: blue")>>,
     CssRule(".box", "color: blue"),
     CssRule("h1", "font-weight: bold"),
     CssRule(".box", "color: blue") \o CssRule("h1", "font-weight: bold"),
     CssRule("p", "margin: 1px") \o CssRule("h1", "font-weight: bold"),
     MediaBlock(CssRule(".box", "color: blue"))}

CssInit ==
    /\ ServerInit
    /\ FunOff
    /\ HandlerOff
    /\ MergeOff
    /\ ResolveOff
    /\ ClassifyOff
    /\ cPc = "chosen"
    /\ cFull \in StyleSheets
    /\ cFrag \in CssFragments
    /\ cOut = <<>>

CssMerge ==
    /\ cPc = "chosen"
    /\ cOut' = mergeCSSFragment(cFull, cFrag, ClassSel("box"))
    /\ cPc' = "merged"
    /\ UNCHANGED <<cFull, cFrag, mergeVars, resolveVars, classifyVars, funVars, handlerVars, serverVars, pipelineVars>>

CssNext == CssMerge

CssSpec == CssInit /\ [][CssNext]_vars

\* The rules of a style sheet, read as CSS reads them.
RuleList(css) == extractCSSRules(css)

RuleSet(css) == {RuleList(css)[i] : i \in 1..Len(RuleList(css))}

\* Number of blocks open after the tokens 1..n of css.
BraceDepth(css, n) ==
    Cardinality({i \in 1..n : css[i].k = "lb"}) - Cardinality({i \in 1..n : css[i].k = "rb"})

\* Selectors of the rules of css that are not nested in the block of an at-rule.
TopLevelSelectors(css) ==
    {SubSeq(css, i, NextBrace(css, i) - 1) :
        i \in {j \in 1..Len(css) : RuleAt(css, j) /\ BraceDepth(css, j - 1) = 0}}

\* C15: with at least one parseable rule in the fragment, every rule of the
\* fragment is in the result; where its selector has a rule in the full CSS it
\* stands in place of it, as the only rule of that selector and with the
\* fragment's declarations; otherwise it is appended after the rules of the
\* full CSS.
C15_FragmentRulesPresent ==
    (cPc = "merged" /\ cFull # <<>> /\ RuleList(cFrag) # <<>>)
    => \A f \in RuleSet(cFrag) :
          LET out == RuleList(cOut)
              at == {i \in 1..Len(out) : out[i].selector = f.selector}
              inFull == {i \in 1..Len(RuleList(cFull)) : RuleList(cFull)[i].selector = f.selector}
          IN /\ f \in RuleSet(cOut)
             /\ inFull # {} => (Cardinality(at) = 1 /\ at \subseteq inFull)
             /\ inFull = {} => \A i \in at : i > Len(RuleList(cFull))

\* C16: a rule of the full CSS whose selector differs from the selector of
\* every top-level rule of the fragment is unchanged in the result, at its
\* place; rules nested in an at-rule of the fragment overwrite nothing.
C16_OtherRulesUntouched ==
    (cPc = "merged" /\ RuleList(cFrag) # <<>>)
    => \A i \in 1..Len(RuleList(cFull)) :
          RuleList(cFull)[i].selector \notin TopLevelSelectors(cFrag)
          => /\ i <= Len(RuleList(cOut))
             /\ RuleList(cOut)[i] = RuleList(cFull)[i]


-----------------------------------------------------------------------------
(* Classifier harness: parseIntent applied to messages, image flags and      *)
(* replies of the classification call drawn from bounded sets.               *)

ClassifyWordPool == {"red", "th:si", "arrange", "build a", "button", "bigger"}

ClassifyMessages ==
    {Message(w, sel) : w \in SUBSET ClassifyWordPool, sel \in {"none", "elements", "garbage"}}

\* What the reply's "complexity" may hold: a tier, nothing, or another word.
Complexities == {"simple", "medium", "full", "undefined", "extreme"}

ClassifyReplies ==
    {Reply("error", 0, NoBody), Reply("nojson", 1, NoBody), Reply("badjson", 1, NoBody)}
    \cup {Reply("ok", 1, [NoBody EXCEPT !.action = "recolor", !.targetHint = Hint("class", "box"),
                                         !.property = "color", !.value = "blue",
                                         !.complexity = c]) : c \in Complexities}

ClassifyInit ==
    /\ ServerInit
    /\ FunOff
    /\ HandlerOff
    /\ MergeOff
    /\ ResolveOff
    /\ CssOff
    /\ kPc = "chosen"
    /\ kMessage \in ClassifyMessages
    /\ kImage \in BOOLEAN
    /\ kReply \in ClassifyReplies
    /\ kIntent = NoIntent

Classify ==
    /\ kPc = "chosen"
    /\ kIntent' = parseIntent(kMessage, kImage, kReply)
    /\ kPc' = "classified"
    /\ UNCHANGED <<kMessage, kImage, kReply, mergeVars, resolveVars, cssVars, funVars, handlerVars, serverVars, pipelineVars>>

ClassifyNext == Classify

ClassifySpec == ClassifyInit /\ [][ClassifyNext]_vars

\* The keyword sets the normalized text of the classified message matches.
HasSimple == \E w \in normalizeThaiText(kMessage.words) : SIMPLE_ACTIONS_in(w)
HasLayout == \E w \in normalizeThaiText(kMessage.words) : LAYOUT_ACTIONS_in(w)
HasComplex == \E w \in normalizeThaiText(kMessage.words) : COMPLEX_ACTIONS_in(w)

\* The classification call failed and no image is attached: the intent's tier
\* is the local heuristic's.
LocalTierOnly == kPc = "classified" /\ ~kImage /\ kReply.kind # "ok"

C23_BiggerIsSimple ==
    (LocalTierOnly /\ kMessage.words = {"button", "bigger"})
    => /\ kIntent.strategy = "simple"
       /\ ElevatedStrategy(kIntent) = "simple"

\* The lower-ranked of two tiers, the first on a tie.
CheaperOf(a, b) == IF strategyRank(a) <= strategyRank(b) THEN a ELSE b

\* C19: when the classification call succeeds the intent's tier is one of
\* simple, medium, full: full with an image, otherwise the lower-ranked of the
\* local heuristic's tier and the tier of the reply, also when the reply holds
\* no tier or an unknown one.
C19_TierIsCheaper ==
    (kPc = "classified" /\ kReply.kind = "ok")
    => /\ kIntent.strategy \in Strategies
       /\ kImage => kIntent.strategy = "full"
       /\ (~kImage /\ kReply.body.complexity \in Strategies)
            => kIntent.strategy
                 = CheaperOf(determineStrategy("", normalizeThaiText(kMessage.words)),
                             kReply.body.complexity)

\* C20: a message with the selected-areas marker is classified with
\* hasSelection, the normalized text before the marker and the marker block as
\* selectionContext, when the call succeeds and when it fails; in the latter
\* case with the local tier, action modify and target body.
C20_SelectionKept ==
    (kPc = "classified" /\ kMessage.selection # "none")
    => /\ kIntent.hasSelection
       /\ kIntent.normalizedMessage = normalizeThaiText(kMessage.words)
       /\ kIntent.selectionContext = kMessage.selection
       /\ (kReply.kind # "ok")
            => /\ kIntent.action = "modify"
               /\ kIntent.targetHint = Hint("word", "body")
               /\ ~kImage => kIntent.strategy
                               = determineStrategy("", normalizeThaiText(kMessage.words))


-----------------------------------------------------------------------------
(* The server serving requests, one at a time, with the replies of the model *)
(* drawn from bounded sets.                                                  *)

Usages == {1, 2}

BoxHtml == <<Open("div", "", <<"box">>), Text("old"), Close("div")>>
BoxCss == <<SelT(".box"), LB, DeclT("color: red"), RB>>
CodeA == Code(BoxHtml, BoxCss, <<>>)
NoCode == Code(Null, Null, Null)

Submissions == {NoCode, CodeA}

MessageWords ==
    {{"color"}, {"th:si", "th:jadklang"}, {"align"}, {"arrange", "color"}, {"build a"}}

Messages ==
    {Message(w, "none") : w \in MessageWords}
    \cup {Message({"color"}, sel) : sel \in {"elements", "garbage"}}

\* Requests with an image attached carry one of two messages.
Requests ==
    {[message |-> m, image |-> FALSE] : m \in Messages}
    \cup {[message |-> Message(w, "none"), image |-> TRUE] : w \in {{"paste"}, {"color"}}}

IntentBody(action, targetHint, property, value, complexity) ==
    [NoBody EXCEPT !.action = action, !.targetHint = targetHint, !.property = property,
                   !.value = value, !.complexity = complexity]

IntentBodies ==
    {IntentBody("", Hint("empty", ""), "", "", "undefined"),
     IntentBody("", Hint("empty", ""), "", "", "full"),
     IntentBody("recolor", Hint("class", "box"), "color", "blue", "simple"),
     IntentBody("recolor", Hint("class", "box"), "color", "blue", "medium"),
     IntentBody("align", Hint("word", "hero"), "", "", "simple")}

IntentReplies ==
    {Reply("error", 0, NoBody)}
    \cup {Reply(k, u, NoBody) : k \in {"nojson", "badjson"}, u \in Usages}
    \cup {Reply("ok", u, b) : u \in Usages, b \in IntentBodies}

NewBoxHtml == <<Open("div", "", <<"box">>), Text("new"), Close("div")>>
BlueRule == <<SelT(".box"), LB, DeclT("color: blue"), RB>>

MutationBodies ==
    {[NoBody EXCEPT !.htmlFragment = NewBoxHtml],
     NoBody,
     [NoBody EXCEPT !.htmlFragment = NewBoxHtml, !.mergeMode = "prepend", !.cssFragment = BlueRule],
     [NoBody EXCEPT !.html = NewBoxHtml, !.css = BlueRule],
     [NoBody EXCEPT !.html = <<>>, !.javascript = <<JsT("init()")>>, !.jsFragment = <<JsT("init()")>>]}

MutationReplies ==
    {Reply("error", 0, NoBody)}
    \cup {Reply("unparseable", u, NoBody) : u \in Usages}
    \cup {Reply("ok", u, b) : u \in Usages, b \in MutationBodies}

OriginalReplies == MutationReplies \cup {Reply("jsonnull", u, NoBody) : u \in Usages}

Init == ServerInit /\ MergeOff /\ ResolveOff /\ CssOff /\ ClassifyOff /\ FunOff /\ HandlerOff

Next ==
    \/ \E id \in ConversationIds, r \in Requests, c \in Submissions :
           Request(id, r.message, r.image, c)
    \/ \E r \in IntentReplies : IntentResponse(r)
    \/ \E r \in MutationReplies : ImageResponse(r)
    \/ \E r \in MutationReplies : MutationResponse(r)
    \/ \E r \in MutationReplies : FallbackResponse(r)
    \/ \E r \in MutationReplies : RetryResponse(r)
    \/ \E r \in OriginalReplies : OriginalResponse(r)
    \/ RespondResult
    \/ RespondError

Spec == Init /\ [][Next]_vars

-----------------------------------------------------------------------------
(* Properties of the pipeline *)

Fields == {"html", "css", "javascript"}

CallsAt(stages) == {i \in 1..Len(llmCalls) : llmCalls[i].stage \in stages}

HasStep(steps, stage, success) ==
    \E i \in 1..Len(steps) : steps[i].stage = stage /\ steps[i].success = success

StoredCode(id) == conversationStates[id].code

\* C2: when the fragment mutation throws and the next call returns a
\* well-formed reply, the returned result comes from the full strategy
\* (mutationType 'full', step 'mutation-fallback') and OriginalFlow is not
\* entered.
C2_EscalationRunsFull ==
    (/\ pc = "returned"
     /\ \E i \in 1..(Len(llmCalls) - 1) :
            /\ llmCalls[i].stage = "mutation" /\ llmCalls[i].call = "fragment"
            /\ llmCalls[i].outcome \in {"error", "unparseable"}
            /\ llmCalls[i + 1].outcome = "ok")
    => /\ result.mutationType = "full"
       /\ HasStep(result.steps, "mutation-fallback", TRUE)
       /\ CallsAt({"original"}) = {}

\* C3: a request whose selected-areas block holds a non-empty element list,
\* every call of which is answered with a well-formed reply, gets the context
\* body / 'selection' / 'full' and a result produced by the selection
\* mutation, not by the fragment mutation and not by OriginalFlow.
C3_SelectionStrategy ==
    (/\ pc = "returned"
     /\ req.message.selection = "elements"
     /\ ~req.image
     /\ \A i \in 1..Len(llmCalls) : llmCalls[i].outcome = "ok")
    => /\ context.selector = TagSel("body")
       /\ context.resolvedBy = "selection"
       /\ context.strategy = "full"
       /\ result.mutationType = "selection"
       /\ CallsAt({"original"}) = {}

\* C4: an invalid first validation is followed by exactly one more mutation
\* attempt, a valid one by none; the response carries the result of the last
\* attempt that completed, also when it is invalid again; a request that
\* reached validation never ends in an error and never enters OriginalFlow.
C4_OneRetry ==
    /\ Cardinality(CallsAt({"retry"})) <= 1
    /\ pc \in {"returned", "failed"} =>
           IF HasStep(pipelineSteps, "validation", TRUE) \/ HasStep(pipelineSteps, "validation", FALSE)
           THEN /\ pc = "returned"
                /\ CallsAt({"original"}) = {}
                /\ Cardinality(CallsAt({"retry"})) = (IF validation.valid THEN 0 ELSE 1)
                /\ \A f \in Fields : result[f] = mutationResult[f]
                /\ llmCalls[Len(llmCalls)].outcome = "ok"
                       => mutationResult = Mutated(mutKind, context, reply, currentCode)
           ELSE CallsAt({"retry"}) = {}

\* A request whose retry produced a result that is invalid again, returned.
C4_Witness ==
    /\ pc = "returned"
    /\ ~validation.valid
    /\ HasStep(result.steps, "retry", FALSE)
    /\ llmCalls[Len(llmCalls)] = [stage |-> "retry", call |-> "fragment", outcome |-> "ok"]
    /\ result.html = Null /\ result.css = Null /\ result.javascript = Null

\* C5: within a request the tier only moves upward (simple < medium < full):
\* the strategy resolveContext returns is not ranked below the one the
\* classifier returned, and no later dispatch (escalation, retry) uses a
\* lower-ranked strategy than the one before it.
C5_TierMonotone ==
    /\ dispatched # <<>> =>
           /\ strategyRank(dispatched[1]) >= strategyRank(classified)
           /\ strategyRank(context.strategy) >= strategyRank(dispatched[Len(dispatched)])
    /\ \A i \in 1..(Len(dispatched) - 1) :
           strategyRank(dispatched[i]) <= strategyRank(dispatched[i + 1])
    /\ pc # "idle" /\ classified # "" => strategyRank(intent.strategy) >= strategyRank(classified)
    /\ pc = "returned" /\ result.strategy \in Strategies =>
           strategyRank(result.strategy) >= strategyRank(classified)

\* Classified simple, elevated to medium by the resolver, escalated to full.
C5_Witness ==
    /\ classified = "simple"
    /\ dispatched = <<"medium", "full">>
    /\ context.strategy = "full"

\* C6: the usage processAdaptiveRequest returns is the sum of the usage of
\* every call of the request that returned a response.
C6_UsageIsSum ==
    pc = "returned" => result.usage = issuedUsage

C8_NullKeepsField ==
    /\ [][(pc = "returned" /\ pc' = "idle") =>
              \A f \in Fields :
                  result[f] = Null =>
                      /\ StoredCode(req.conversationId)'[f] = currentCode[f]
                      /\ StoredCode(req.conversationId)'[f] = StoredCode(req.conversationId)[f]]_vars
    /\ [](mutationResult.mutationType = "fragment" /\ reply.kind = "ok" =>
              \A f \in Fields :
                  (mutationResult[f] = Null)
                      <=> (FragmentMerged(context, currentCode, reply.body)[f] = currentCode[f]))

\* A result with html null and css changed has been applied.
C8_Witness ==
    /\ pc = "idle"
    /\ response = "result"
    /\ result.html = Null /\ result.css # Null /\ result.mutationType = "fragment"
    /\ StoredCode("c1").html = BoxHtml
    /\ StoredCode("c1").css = result.css

StageOrder(stage) ==
    CASE stage = "intent" -> 1
      [] stage \in {"mutation", "image"} -> 2
      [] stage = "fallback" -> 3
      [] stage = "retry" -> 4
      [] stage = "original" -> 5

\* How far a request has come.
PcRank(p) ==
    CASE p = "idle" -> 7
      [] p \in {"returned", "failed"} -> 6
      [] OTHER -> StageOrder(p)

\* C9: a request issues at most one classification call, one first mutation
\* call, one escalation call, one retry call and one OriginalFlow call, in
\* that order and never two at once; every step of a request takes it to a
\* later stage, to its result or to its error, so it ends after at most that
\* many calls.
C9_BoundedCalls ==
    /\ [](/\ \A i \in 1..(Len(llmCalls) - 1) :
                 /\ StageOrder(llmCalls[i].stage) < StageOrder(llmCalls[i + 1].stage)
                 /\ llmCalls[i].outcome # "pending"
          /\ (pc \in {"intent", "image", "mutation", "fallback", "retry", "original"})
                 <=> (llmCalls # <<>> /\ llmCalls[Len(llmCalls)].outcome = "pending"
                      /\ llmCalls[Len(llmCalls)].stage = pc))
    /\ [][pc # "idle" => PcRank(pc') > PcRank(pc)]_vars

\* The longest run: classification, selection mutation, escalation, retry.
C9_Witness ==
    /\ pc = "returned"
    /\ Len(llmCalls) = 4
    /\ llmCalls[4].stage = "retry"

\* The retry attempt that is awaited throws: the call fails or its reply
\* cannot be parsed.
RetryThrows ==
    /\ pc = "retry"
    /\ pc' # "retry"
    /\ Mutated(mutKind, context, reply', currentCode).threw

\* C30: when the retry attempt throws, the orchestrator does not enter
\* OriginalFlow and raises no error: it records the failed retry step and
\* returns the first attempt's result with the usage accumulated so far.
C30_RetryThrowKeepsFirst ==
    [][RetryThrows
       => /\ pc' = "returned"
          /\ mutationResult' = mutationResult
          /\ totalUsage' = totalUsage
          /\ pipelineSteps' = Append(pipelineSteps, Step("retry", retry + 1, FALSE))
          /\ result'.html = mutationResult.html
          /\ result'.css = mutationResult.css
          /\ result'.javascript = mutationResult.javascript
          /\ result'.usage = totalUsage
          /\ result'.steps = pipelineSteps'
          /\ \A i \in 1..Len(llmCalls') : llmCalls'[i].stage # "original"]_vars

\* A request returned after a retry whose call to the model failed.
C30_Witness ==
    /\ pc = "returned"
    /\ llmCalls # <<>>
    /\ llmCalls[Len(llmCalls)].stage = "retry"
    /\ llmCalls[Len(llmCalls)].outcome = "error"
    /\ pipelineSteps[Len(pipelineSteps)] = Step("retry", 1, FALSE)
    /\ ~validation.valid
    /\ result.html = mutationResult.html
    /\ result.usage = totalUsage

\* C17: a request without image and without selection whose message has a
\* layout keyword of the classifier is never dispatched to a mutation with a
\* tier below medium, whatever tier the classification call returned.
C17_LayoutAtLeastMedium ==
    (/\ pc # "idle"
     /\ ~req.image
     /\ req.message.selection = "none"
     /\ \E w \in normalizeThaiText(req.message.words) : LAYOUT_ACTIONS_in(w))
    => \A i \in 1..Len(dispatched) :
          dispatched[i] \in Strategies /\ strategyRank(dispatched[i]) >= strategyRank("medium")

-----------------------------------------------------------------------------
(* Parser harness: a mutation of each kind, and executeOriginalFlow, from the *)
(* point where its call settled with a reply JSON.parse rejects.             *)

SomeText == {Null, <<Text("new")>>}

\* What the regular expressions recover from a malformed reply.
RecoveredBodies ==
    {[NoBody EXCEPT !.htmlFragment = hf, !.cssFragment = cf, !.jsFragment = jf,
                    !.html = h, !.css = c, !.javascript = j] :
        hf \in SomeText, cf \in {Null, BlueRule}, jf \in {Null, <<JsT("init()")>>},
        h \in SomeText, c \in {Null, BlueRule}, j \in {Null, <<JsT("init()")>>}}

Executors == {"fragment", "selection", "image", "original"}

ParseInit ==
    /\ ServerInit
    /\ MergeOff
    /\ ResolveOff
    /\ CssOff
    /\ ClassifyOff
    /\ HandlerOff
    /\ fPc = "chosen"
    /\ fIn \in {[executor |-> e, reply |-> Reply("malformed", 1, b)] :
                    e \in Executors, b \in RecoveredBodies}
    /\ fOut = <<>>

\* Whether the executor ends in a thrown error for the reply.
ExecutorThrows(executor, reply_) ==
    CASE executor = "fragment" ->
            executeFragmentMutation([NoContext EXCEPT !.selector = ClassSel("box")], CodeA, reply_).threw
      [] executor = "selection" -> executeSelectionMutation(reply_).threw
      [] executor = "image" -> executeImageMutation("reference", reply_).threw
      [] OTHER -> AfterOriginal(NoLocals, reply_).pc = "failed"

Parse ==
    /\ fPc = "chosen"
    /\ fOut' = [threw |-> ExecutorThrows(fIn.executor, fIn.reply)]
    /\ fPc' = "parsed"
    /\ UNCHANGED <<fIn, mergeVars, resolveVars, cssVars, classifyVars, handlerVars, serverVars, pipelineVars>>

ParseNext == Parse

ParseSpec == ParseInit /\ [][ParseNext]_vars

\* At least one code field was recovered from the reply.
CodeRecovered(b) ==
    \E x \in {b.htmlFragment, b.cssFragment, b.jsFragment, b.html, b.css, b.javascript} :
        x \notin {Null, <<>>}

\* C24: for a malformed reply every mutation and OriginalFlow end in a thrown
\* error exactly when no code field (html, css or javascript, whole or
\* fragment) could be recovered from it.
C24_ThrowsIffNothingRecovered ==
    fPc = "parsed" => (fOut.threw <=> ~CodeRecovered(fIn.reply.body))

-----------------------------------------------------------------------------
(* Validator harness: validateMutation applied to intents and mutation       *)
(* results drawn from bounded sets.                                          *)

ImportantRule == CssRule(".box", "color: red !important")

\* A JSON value of the model's reply that is not a string (the number 42).
NotAString == <<[k |-> "number"]>>

ValidatedHtml ==
    {Null, <<>>, NotAString, NewBoxHtml, <<Open("div", "", <<>>)>>,
     <<Open("div", "", <<>>), Close("p")>>,
     <<Open("div", "", <<>>), Open("div", "", <<>>), Open("p", "", <<>>), Open("p", "", <<>>),
       Text("old")>>}

ValidatedCss ==
    {Null, <<>>, NotAString, BlueRule, <<SelT(".box"), LB, DeclT("color: blue")>>,
     CssRule(".box", "margin: -5px"), CssRule(".box", "width: 5000px"),
     BlueRule \o ImportantRule \o ImportantRule \o ImportantRule \o ImportantRule}

ValidatedIntents ==
    {[property |-> pv[1], value |-> pv[2]] : pv \in {<<"", "">>, <<"color", "blue">>}}

ValidateInit ==
    /\ ServerInit
    /\ MergeOff
    /\ ResolveOff
    /\ CssOff
    /\ ClassifyOff
    /\ HandlerOff
    /\ fPc = "chosen"
    /\ fIn \in {[intent |-> i, mutated |-> Code(h, c, j)] :
                    i \in ValidatedIntents, h \in ValidatedHtml, c \in ValidatedCss,
                    j \in {Null, <<JsT("init()")>>}}
    /\ fOut = <<>>

\* html.trim() and css.trim() of checkHTMLSyntax and checkCSSSyntax raise a
\* TypeError on a changed field that is not a string.
ValidateThrows(mutatedCode) ==
    mutatedCode.html = NotAString \/ mutatedCode.css = NotAString

ValidateOnce ==
    /\ fPc = "chosen"
    /\ fOut' = IF ValidateThrows(fIn.mutated)
               THEN [threw |-> TRUE, valid |-> FALSE, errors |-> <<>>, feedbackPrompt |-> <<>>]
               ELSE LET v == validateMutation(fIn.intent, CodeA, fIn.mutated)
                    IN [threw |-> FALSE, valid |-> v.valid, errors |-> v.errors,
                        feedbackPrompt |-> v.feedbackPrompt]
    /\ fPc' = "validated"
    /\ UNCHANGED <<fIn, mergeVars, resolveVars, cssVars, classifyVars, handlerVars, serverVars, pipelineVars>>

ValidateNext == ValidateOnce

ValidateSpec == ValidateInit /\ [][ValidateNext]_vars

HardErrors ==
    {"NO_CHANGES", "EMPTY_HTML", "MISMATCHED_TAG", "UNCLOSED_TAGS", "UNBALANCED_CSS",
     "PROPERTY_NOT_APPLIED", "TRUNCATED_HTML"}

Listed(seq) == {seq[i] : i \in 1..Len(seq)}

\* C25: validateMutation never throws; it returns valid exactly when its error list is empty
\* and a null feedbackPrompt exactly when valid, otherwise one that lists
\* every error; a result with html, css and javascript all null has a
\* NO_CHANGES error; the anti-pattern warnings are never among the errors.
C25_ValidIffNoErrors ==
    fPc = "validated"
    => /\ ~fOut.threw
       /\ fOut.valid <=> fOut.errors = <<>>
       /\ fOut.feedbackPrompt = <<>> <=> fOut.valid
       /\ Listed(fOut.errors) \subseteq Listed(fOut.feedbackPrompt)
       /\ (fIn.mutated.html = Null /\ fIn.mutated.css = Null /\ fIn.mutated.javascript = Null)
            => "NO_CHANGES" \in Listed(fOut.errors)
       /\ Listed(fOut.errors) \subseteq HardErrors

\* The returned record keeps the contract whenever validateMutation returns.
ReturnedContract ==
    (fPc = "validated" /\ ~fOut.threw)
    => /\ fOut.valid <=> fOut.errors = <<>>
       /\ fOut.feedbackPrompt = <<>> <=> fOut.valid
       /\ Listed(fOut.errors) \subseteq Listed(fOut.feedbackPrompt)
       /\ (fIn.mutated.html = Null /\ fIn.mutated.css = Null /\ fIn.mutated.javascript = Null)
            => "NO_CHANGES" \in Listed(fOut.errors)
       /\ (fIn.mutated.css # Null /\ checkAntiPatterns(fIn.mutated.css) # <<>>
           /\ fIn.mutated.html = Null /\ fIn.intent.property = "")
            => fOut.valid

-----------------------------------------------------------------------------
(* Syntax harness: checkHTMLSyntax applied to tag sequences drawn from a     *)
(* bounded set.                                                              *)

SyntaxTokens ==
    {Open("div", "", <<>>), Open("p", "", <<>>), Close("div"), Close("p"), Text("old"),
     Open("br", "", <<>>), SelfClosed("div", "", <<>>)}

SyntaxInit ==
    /\ ServerInit
    /\ MergeOff
    /\ ResolveOff
    /\ CssOff
    /\ ClassifyOff
    /\ HandlerOff
    /\ fPc = "chosen"
    /\ fIn \in (SeqsUpTo(SyntaxTokens, MaxDocLen) \ {<<>>})
    /\ fOut = <<>>

CheckSyntax ==
    /\ fPc = "chosen"
    /\ fOut' = checkHTMLSyntax(fIn)
    /\ fPc' = "checked"
    /\ UNCHANGED <<fIn, mergeVars, resolveVars, cssVars, classifyVars, handlerVars, serverVars, pipelineVars>>

SyntaxNext == CheckSyntax

SyntaxSpec == SyntaxInit /\ [][SyntaxNext]_vars

\* The tag at index n takes part in the balance check.
Counted(tok) == tok.k \in {"open", "close"} /\ tok.tag \notin VoidTags

\* The tags open after the first n tokens: an open tag is pushed, a close tag
\* of the name on top pops it, any other close tag leaves the stack as it is.
RECURSIVE StillOpen(_, _)
StillOpen(html, n) ==
    IF n = 0 THEN <<>>
    ELSE LET st == StillOpen(html, n - 1)
             tok == html[n]
         IN IF ~Counted(tok) THEN st
            ELSE IF tok.k = "open" THEN Append(st, tok.tag)
            ELSE IF st # <<>> /\ st[Len(st)] = tok.tag THEN SubSeq(st, 1, Len(st) - 1)
            ELSE st

\* The close tags that do not match the most recently opened, still open tag.
MismatchedCloses(html) ==
    {n \in 1..Len(html) :
        /\ Counted(html[n]) /\ html[n].k = "close"
        /\ StillOpen(html, n - 1) # <<>>
        /\ StillOpen(html, n - 1)[Len(StillOpen(html, n - 1))] # html[n].tag}

ProperlyNested(html) ==
    /\ StillOpen(html, Len(html)) = <<>>
    /\ \A n \in 1..Len(html) :
          (Counted(html[n]) /\ html[n].k = "close")
          => Len(StillOpen(html, n)) = Len(StillOpen(html, n - 1)) - 1

\* C28: checkHTMLSyntax reports one MISMATCHED_TAG for every close tag that
\* does not match the tag on top of the open-tag stack, which that close tag
\* leaves unchanged; UNCLOSED_TAGS exactly when more than three tags are
\* still open at the end; nothing for a properly nested document.
C28_BalanceCheck ==
    fPc = "checked"
    => /\ Cardinality({i \in 1..Len(fOut) : fOut[i] = "MISMATCHED_TAG"})
            = Cardinality(MismatchedCloses(fIn))
       /\ "UNCLOSED_TAGS" \in Listed(fOut) <=> Len(StillOpen(fIn, Len(fIn))) > 3
       /\ ProperlyNested(fIn) => fOut = <<>>

\* A mismatched close tag followed by the close tag the stack still expects.
C28_Witness ==
    /\ fPc = "checked"
    /\ Cardinality(MismatchedCloses(fIn)) = 1
    /\ StillOpen(fIn, Len(fIn)) = <<"div">>
    /\ Len(fIn) = 4
    /\ fOut = <<"MISMATCHED_TAG">>

-----------------------------------------------------------------------------
(* The adaptive-chat handler with requests in flight. Every await of the     *)
(* pipeline gives way to the other requests; the objects the handler reads   *)
(* and writes are kept in a heap, so that two names of one object are seen   *)
(* to share it.                                                              *)

HandlerIds == {"c1", "c2"}

MaxInFlight == 2

MaxArrivals == 3

Slots == 1..MaxInFlight

CodeB == Code(NewBoxHtml, BlueRule, <<>>)

HandlerSubmissions == {NoCode, CodeA, CodeB}

\* What the pipeline returns: nothing changed, or a new html alone.
HandlerResults == {NoCode, Code(<<Text("new")>>, Null, Null)}

FreeSlot == [at |-> "free", id |-> "c1", ref |-> 0, snapshot |-> EmptyCode, seen |-> EmptyCode]

HandlerInit ==
    /\ ServerInit
    /\ MergeOff
    /\ ResolveOff
    /\ CssOff
    /\ ClassifyOff
    /\ FunOff
    /\ heap = <<>>
    /\ stateOf = [id \in HandlerIds |-> 0]
    /\ inFlight = [s \in Slots |-> FreeSlot]
    /\ arrivals = 0

\* Lines 360-384 of the handler, up to the first await of the pipeline:
\* currentCode is the object conversationStates holds for the id, or a new
\* one; the submitted fields are written into that object.
Arrive(s, id, submitted) ==
    /\ inFlight[s].at = "free"
    /\ \A t \in Slots : t < s => inFlight[t].at # "free"
    /\ arrivals < MaxArrivals
    /\ arrivals' = arrivals + 1
    /\ LET known == stateOf[id] # 0
           ref == IF known THEN stateOf[id] ELSE Len(heap) + 1
           base == IF known THEN heap[ref] ELSE EmptyCode
           code == Code(Submitted(submitted.html, base.html),
                        Submitted(submitted.css, base.css),
                        Submitted(submitted.javascript, base.javascript))
       IN /\ heap' = IF known THEN [heap EXCEPT ![ref] = code] ELSE Append(heap, code)
          /\ stateOf' = [stateOf EXCEPT ![id] = ref]
          /\ inFlight' = [inFlight EXCEPT ![s] =
                             [at |-> "intent", id |-> id, ref |-> ref, snapshot |-> code,
                              seen |-> code]]
    /\ UNCHANGED <<mergeVars, resolveVars, cssVars, classifyVars, funVars, serverVars, pipelineVars>>

\* The classification call returns: the later stages of processAdaptiveRequest
\* (resolveContext, the mutation prompt) read the fields of currentCode.
Resume(s) ==
    /\ inFlight[s].at = "intent"
    /\ inFlight' = [inFlight EXCEPT ![s].at = "mutation", ![s].seen = heap[inFlight[s].ref]]
    /\ UNCHANGED <<heap, stateOf, arrivals, mergeVars, resolveVars, cssVars, classifyVars,
                   funVars, serverVars, pipelineVars>>

\* The pipeline returns: lines 386-402 of the handler store a new object
\* made of the result's fields and, for its null fields, those of currentCode.
Complete(s, res) ==
    /\ inFlight[s].at = "mutation"
    /\ LET cur == heap[inFlight[s].ref]
           newCode == Code(ResultOrCurrent(res.html, cur.html),
                           ResultOrCurrent(res.css, cur.css),
                           ResultOrCurrent(res.javascript, cur.javascript))
       IN /\ heap' = Append(heap, newCode)
          /\ stateOf' = [stateOf EXCEPT ![inFlight[s].id] = Len(heap) + 1]
    /\ inFlight' = [inFlight EXCEPT ![s] = FreeSlot]
    /\ UNCHANGED <<arrivals, mergeVars, resolveVars, cssVars, classifyVars, funVars,
                   serverVars, pipelineVars>>

\* The pipeline throws: the handler answers 500 and stores nothing.
Fail(s) ==
    /\ inFlight[s].at = "mutation"
    /\ inFlight' = [inFlight EXCEPT ![s] = FreeSlot]
    /\ UNCHANGED <<heap, stateOf, arrivals, mergeVars, resolveVars, cssVars, classifyVars,
                   funVars, serverVars, pipelineVars>>

HandlerNext ==
    \/ \E s \in Slots, id \in HandlerIds, c \in HandlerSubmissions : Arrive(s, id, c)
    \/ \E s \in Slots : Resume(s)
    \/ \E s \in Slots, r \in HandlerResults : Complete(s, r)
    \/ \E s \in Slots : Fail(s)

HandlerSpec == HandlerInit /\ [][HandlerNext]_vars

\* The document conversationStates holds for the id.
StoredDocument(id) == IF stateOf[id] = 0 THEN EmptyCode ELSE heap[stateOf[id]]

\* C29: the document a request's pipeline works on stays the snapshot taken
\* when the request started, whatever other requests arrive while it awaits
\* a call: what its later stages read, and what the write-back of null
\* fields will read, is that snapshot.
C29_SnapshotFixed ==
    \A s \in Slots :
        inFlight[s].at # "free"
        => /\ inFlight[s].seen = inFlight[s].snapshot
           /\ heap[inFlight[s].ref] = inFlight[s].snapshot

\* A step changes the stored document of the conversation id of the request
\* that takes the step, and of no other id.
DifferentIdsIsolated ==
    [][\A id \in HandlerIds :
          StoredDocument(id)' # StoredDocument(id)
          => \E s \in Slots :
                /\ inFlight'[s] # inFlight[s]
                /\ id = IF inFlight[s].at = "free" THEN inFlight'[s].id ELSE inFlight[s].id]_vars

====
